---- MODULE Spec2Model ----
(***************************************************************************)
(* A model of pyemsi's FEMAP Neutral file parser (pyemsi/femap_parser.pyx) *)
(* and of the FemapConverter pipeline stages that consume it.              *)
(*                                                                         *)
(* Text is modelled as TLA+ strings; a character is a string of length 1.  *)
(* Python indices are 0-based, the sequences below are 1-based: the cursor *)
(* i of the source is the cursor i + 1 here.                               *)
(***************************************************************************)
EXTENDS Integers, Sequences, FiniteSets, TLC

VARIABLES
    line,      \* tokenizer: the str handed to parse_csv_line
    parts,     \* tokenizer: what parse_csv_line(line) returned
    alt,       \* tokenizer: what parse_csv_line returned on the space form
    files,     \* parser: files[p] is the list f.readlines() gives for the
               \*         file of FEMAPParser instance p, newlines dropped
    made,      \* parser: how the files were made (the blocks written, the
               \*         two neighbours swapped or the line split at)
    status,    \* parser: status[p] is "new", "ok" (constructed) or "raised"
    blocks,    \* parser: blocks[p] is self.blocks of instance p
    build,     \* parser: whether the built extension lets an exception of
               \*         the cdef void _parse reach the caller
    call,      \* parser: the method called last and its arguments
    ret,       \* parser: ret[p] is what that method returned on instance p
    cursor,    \* parser: the loop a method walked step by step is in, and
               \*         its line cursor
    sets,      \* converter: self.sets, the set table, in insertion order
    pvd,       \* converter: the collection file <output_name>.pvd
    pc,        \* converter: the stage run() is at
    running,   \* converter: the steps whose worker has not finished
    written,   \* converter: the steps whose file was written, in the order
               \*            in which the workers finished
    failed,    \* converter: the steps reported as failed
    mesh,      \* converter: self.mesh and the maps _build_mesh stores
    vectors,   \* converter: self.vectors, channel name -> vector records
    vtm        \* converter: the .vtm files written, by path

tokVars == <<line, parts, alt>>
parVars == <<files, made, build, status, blocks, call, ret, cursor>>
convVars == <<sets, pvd, pc, running, written, failed, mesh, vectors, vtm>>
vars == <<line, parts, alt, files, made, build, status, blocks, call, ret, cursor,
          sets, pvd, pc, running, written, failed, mesh, vectors, vtm>>

-----------------------------------------------------------------------------
(* Bounds of the model                                                     *)

MaxLineLen == 6     \* longest line handed to the tokenizer alone
MaxBlocks == 3      \* most blocks written to one file

-----------------------------------------------------------------------------
(* Python str primitives                                                   *)

\* the characters str.strip() and str.split() treat as whitespace
Whitespace == {" ", "\t"}

Ch(s, i) == SubSeq(s, i, i)

SetMax(S) == CHOOSE m \in S : \A k \in S : k <= m
SetMin(S) == CHOOSE m \in S : \A k \in S : m <= k

\* s.rstrip(chars)
RStrip(s, chars) ==
    LET keep == {i \in 1..Len(s) : Ch(s, i) \notin chars}
    IN  IF keep = {} THEN "" ELSE SubSeq(s, 1, SetMax(keep))

\* s.lstrip(chars)
LStrip(s, chars) ==
    LET keep == {i \in 1..Len(s) : Ch(s, i) \notin chars}
    IN  IF keep = {} THEN "" ELSE SubSeq(s, SetMin(keep), Len(s))

\* s.strip()
Strip(s) == LStrip(RStrip(s, Whitespace), Whitespace)

\* c in s
Contains(s, c) == \E i \in 1..Len(s) : Ch(s, i) = c

\* s.split(sep) for a one-character sep: every fragment, the empty ones too
RECURSIVE SplitOn(_, _)
SplitOn(s, sep) ==
    LET hits == {i \in 1..Len(s) : Ch(s, i) = sep}
    IN  IF hits = {} THEN <<s>>
        ELSE LET k == SetMin(hits)
             IN  <<SubSeq(s, 1, k - 1)>> \o SplitOn(SubSeq(s, k + 1, Len(s)), sep)

\* a plausible slip: s.split(" "), which cuts at every single space
SplitSingleSpace(s) == SplitOn(s, " ")

\* s.split(): the maximal runs of non-whitespace characters
RECURSIVE SplitWhitespace(_)
SplitWhitespace(s) ==
    LET t == LStrip(s, Whitespace)
        ws == {i \in 1..Len(t) : Ch(t, i) \in Whitespace}
    IN  IF t = "" THEN <<>>
        ELSE IF ws = {} THEN <<t>>
        ELSE LET k == SetMin(ws)
             IN  <<SubSeq(t, 1, k - 1)>> \o SplitWhitespace(SubSeq(t, k, Len(t)))

\* [f(p) for p in seq if keep(p)], with f = strip and keep = non-empty strip
RECURSIVE StripNonEmpty(_)
StripNonEmpty(seq) ==
    IF seq = <<>> THEN <<>>
    ELSE LET p == Strip(Head(seq))
         IN  (IF p # "" THEN <<p>> ELSE <<>>) \o StripNonEmpty(Tail(seq))

\* a plausible slip: the comprehension without its "if p.strip()" filter
RECURSIVE StripEach(_)
StripEach(seq) ==
    IF seq = <<>> THEN <<>> ELSE <<Strip(Head(seq))>> \o StripEach(Tail(seq))

-----------------------------------------------------------------------------
(* FEMAPParser._parse_csv_line_fast / FEMAPParser.parse_csv_line           *)

parse_csv_line_nofilter(l) ==
    LET stripped == Strip(RStrip(l, {","}))
    IN  IF Contains(stripped, ",")
        THEN StripEach(SplitOn(stripped, ","))
        ELSE SplitWhitespace(stripped)

_parse_csv_line_fast(l) ==
    LET stripped == Strip(RStrip(l, {","}))
    IN  IF Contains(stripped, ",")
        THEN StripNonEmpty(SplitOn(stripped, ","))
        ELSE SplitWhitespace(stripped)

parse_csv_line(l) == _parse_csv_line_fast(l)

-----------------------------------------------------------------------------
(* int(), float() and the conversion of a Python int to a C int            *)

Digits == {"0", "1", "2", "3", "4", "5", "6", "7", "8", "9"}

DigitVal(c) ==
    CASE c = "0" -> 0 [] c = "1" -> 1 [] c = "2" -> 2 [] c = "3" -> 3
      [] c = "4" -> 4 [] c = "5" -> 5 [] c = "6" -> 6 [] c = "7" -> 7
      [] c = "8" -> 8 [] c = "9" -> 9

Signs == {"+", "-"}

HasSign(t) == Len(t) > 0 /\ Ch(t, 1) \in Signs
Unsigned(t) == IF HasSign(t) THEN SubSeq(t, 2, Len(t)) ELSE t
SignOf(t) == IF Len(t) > 0 /\ Ch(t, 1) = "-" THEN -1 ELSE 1

AllDigits(t) == \A i \in 1..Len(t) : Ch(t, i) \in Digits

\* the number a string of digits writes
RECURSIVE DigitsVal(_)
DigitsVal(t) ==
    IF t = "" THEN 0
    ELSE 10 * DigitsVal(SubSeq(t, 1, Len(t) - 1)) + DigitVal(Ch(t, Len(t)))

\* int(t) succeeds: an optional sign and at least one digit (the tokens
\* handed to int() are already stripped; underscores are outside the
\* alphabet of the model)
IsIntLit(t) == Unsigned(t) # "" /\ AllDigits(Unsigned(t))
IntVal(t) == SignOf(t) * DigitsVal(Unsigned(t))

\* float(t) succeeds: an optional sign, digits with at most one point, at
\* least one digit (exponents, inf and nan are outside the alphabet)
IsFloatLit(t) ==
    LET u == Unsigned(t)
        pts == {i \in 1..Len(u) : Ch(u, i) = "."}
    IN  /\ Cardinality(pts) <= 1
        /\ \A i \in 1..Len(u) : Ch(u, i) \in Digits \cup {"."}
        /\ \E i \in 1..Len(u) : Ch(u, i) \in Digits

\* the value of float(t) as a decimal fraction m / 10^d in lowest form, so
\* that "1.50", "1.5" and "+1.5" give the same value and "1.05" another
FloatVal(t) ==
    LET u == Unsigned(t)
        pts == {i \in 1..Len(u) : Ch(u, i) = "."}
        ip == IF pts = {} THEN u ELSE SubSeq(u, 1, SetMin(pts) - 1)
        fp == IF pts = {} THEN "" ELSE SubSeq(u, SetMin(pts) + 1, Len(u))
        f == RStrip(fp, {"0"})
    IN  [m |-> SignOf(t) * DigitsVal(ip \o f), d |-> Len(f)]

\* a C int holds -2147483648 .. 2147483647; whether int(t) fits is decided
\* on the digits, since the value itself may not
IntMaxDigits == "2147483647"
IntMinDigits == "2147483648"

\* a <= b for two digit strings of the same length
DigitsLeq(a, b) ==
    \/ a = b
    \/ \E i \in 1..Len(a) :
          /\ SubSeq(a, 1, i - 1) = SubSeq(b, 1, i - 1)
          /\ DigitVal(Ch(a, i)) < DigitVal(Ch(b, i))

FitsCInt(t) ==
    LET u == LStrip(Unsigned(t), {"0"})
        limit == IF SignOf(t) = -1 THEN IntMinDigits ELSE IntMaxDigits
    IN  \/ Len(u) < Len(limit)
        \/ Len(u) = Len(limit) /\ DigitsLeq(u, limit)

\* a slip: an empty string taken for 0
int_exc_blank_zero(t) ==
    IF t = "" THEN "none"
    ELSE IF ~IsIntLit(t) THEN "ValueError"
    ELSE IF ~FitsCInt(t) THEN "OverflowError"
    ELSE "none"

\* which exception "cdef int x = int(t)" raises, "none" when it succeeds
int_exc(t) ==
    IF ~IsIntLit(t) THEN "ValueError"
    ELSE IF ~FitsCInt(t) THEN "OverflowError"
    ELSE "none"

\* which exception "cdef double x = float(t)" raises
float_exc(t) == IF IsFloatLit(t) THEN "none" ELSE "ValueError"

\* the exception a run of statements raises: that of the first that fails
FirstExc(excs) ==
    LET bad == {k \in 1..Len(excs) : excs[k] # "none"}
    IN  IF bad = {} THEN "none" ELSE excs[SetMin(bad)]

\* the except clauses of the extractors: (ValueError, IndexError)
Caught == {"ValueError", "IndexError"}

-----------------------------------------------------------------------------
(* Python dict: keys in insertion order, a later value replacing an        *)
(* earlier one in place                                                    *)

DictHas(d, k) == \E j \in 1..Len(d) : d[j].key = k

DictSet(d, k, v) ==
    IF DictHas(d, k)
    THEN [j \in 1..Len(d) |-> IF d[j].key = k THEN [key |-> k, value |-> v] ELSE d[j]]
    ELSE Append(d, [key |-> k, value |-> v])

DictKeys(d) == [j \in 1..Len(d) |-> d[j].key]

\* d1 == d2 in Python: the same keys with the same values, in any order
DictItems(d) == {d[j] : j \in 1..Len(d)}

-----------------------------------------------------------------------------
(* FEMAPBlock and FEMAPParser._parse                                       *)

\* a slip: the block stored before its lines were collected
FEMAPBlockNoLines(block_id, lines) == [block_id |-> block_id, lines |-> <<>>]

FEMAPBlock(block_id, lines) == [block_id |-> block_id, lines |-> lines]

BLOCK_DELIMITER == "   -1"

\* a slip: only the first block of the ID returned
get_blocks_first(blks, block_id) ==
    IF block_id \in DOMAIN blks THEN <<blks[block_id][1]>> ELSE <<>>

\* self.blocks.get(block_id, [])
get_blocks(blks, block_id) ==
    IF block_id \in DOMAIN blks THEN blks[block_id] ELSE <<>>

\* a slip: the dictionary made anew for an ID seen for the first time
StoreBlockReset(blks, block) ==
    IF block.block_id \in DOMAIN blks
    THEN [blks EXCEPT ![block.block_id] = Append(@, block)]
    ELSE [id \in {block.block_id} |-> <<block>>]

\* the store at the end of a block: the list of its ID is created on first
\* use and the block appended to it
StoreBlock(blks, block) ==
    IF block.block_id \in DOMAIN blks
    THEN [blks EXCEPT ![block.block_id] = Append(@, block)]
    ELSE [id \in DOMAIN blks \cup {block.block_id} |->
            IF id = block.block_id THEN <<block>> ELSE blks[id]]

NoBlocks == [id \in {} |-> <<>>]

\* a slip: the guard never taken
IsDoubleDelimiterNever(next_line) == FALSE

\* the guard of _parse: the stripped line after a delimiter is "-1"
IsDoubleDelimiter(next_line) == next_line = "-1"

\* a slip: a block that no delimiter line closes is not stored
RECURSIVE ParseFromClosedOnly(_, _, _)
ParseFromClosedOnly(lines, i, blks) ==
    LET n_lines == Len(lines) IN
    IF i > n_lines THEN [exc |-> "none", blocks |-> blks]
    ELSE IF lines[i] = BLOCK_DELIMITER THEN
        IF i + 1 <= n_lines THEN
            LET next_line == Strip(lines[i + 1]) IN
            IF IsDoubleDelimiter(next_line) THEN ParseFromClosedOnly(lines, i + 1, blks)
            ELSE IF int_exc(next_line) = "ValueError"
                 THEN ParseFromClosedOnly(lines, i + 1, blks)
            ELSE IF int_exc(next_line) # "none"
                 THEN [exc |-> int_exc(next_line), blocks |-> blks]
            ELSE LET ends == {j \in (i + 2)..n_lines : lines[j] = BLOCK_DELIMITER}
                     stop == IF ends = {} THEN n_lines + 1 ELSE SetMin(ends)
                     block_lines == SubSeq(lines, i + 2, stop - 1)
                     block == FEMAPBlock(IntVal(next_line), block_lines)
                 IN  ParseFromClosedOnly(lines, stop + 1,
                                         IF ends = {} THEN blks ELSE StoreBlock(blks, block))
        ELSE ParseFromClosedOnly(lines, i + 1, blks)
    ELSE ParseFromClosedOnly(lines, i + 1, blks)

\* the while loop of _parse from cursor i on; lines are f.readlines() with
\* the newline dropped, which is what rstrip("\n") leaves
RECURSIVE ParseFrom(_, _, _)
ParseFrom(lines, i, blks) ==
    LET n_lines == Len(lines) IN
    IF i > n_lines THEN [exc |-> "none", blocks |-> blks]
    ELSE IF lines[i] = BLOCK_DELIMITER THEN
        IF i + 1 <= n_lines THEN
            LET next_line == Strip(lines[i + 1]) IN
            IF IsDoubleDelimiter(next_line) THEN ParseFrom(lines, i + 1, blks)
            ELSE IF int_exc(next_line) = "ValueError" THEN ParseFrom(lines, i + 1, blks)
            ELSE IF int_exc(next_line) # "none"
                 THEN [exc |-> int_exc(next_line), blocks |-> blks]
            ELSE LET ends == {j \in (i + 2)..n_lines : lines[j] = BLOCK_DELIMITER}
                     stop == IF ends = {} THEN n_lines + 1 ELSE SetMin(ends)
                     block_lines == SubSeq(lines, i + 2, stop - 1)
                     block == FEMAPBlock(IntVal(next_line), block_lines)
                 IN  ParseFrom(lines, stop + 1, StoreBlock(blks, block))
        ELSE ParseFrom(lines, i + 1, blks)
    ELSE ParseFrom(lines, i + 1, blks)

_parse(lines) == ParseFrom(lines, 1, NoBlocks)

-----------------------------------------------------------------------------
(* The extractors.  Each returns [exc, val]: exc is "none" and val the     *)
(* value returned, or exc is the exception that reached the caller.        *)

Return(v) == [exc |-> "none", val |-> v]
Raise(e) == [exc |-> e, val |-> <<>>]
None == [none |-> TRUE]

\* get_header
get_header(blks) ==
    LET bs == get_blocks(blks, 100) IN
    IF bs = <<>> THEN Return(None)
    ELSE IF Len(bs[1].lines) < 2 THEN Return(None)
    ELSE LET title == Strip(bs[1].lines[1])
             version == Strip(bs[1].lines[2])
         IN  Return([title |-> IF title # "<NULL>" THEN title ELSE "",
                     version |-> version])

\* one line of Block 403: the exception of the try body and the node read
NodeExc(p) ==
    FirstExc(<<int_exc(p[1]), float_exc(p[12]), float_exc(p[13]), float_exc(p[14])>>)

NodeOf(p) ==
    [id |-> IntVal(p[1]),
     coords |-> <<FloatVal(p[12]), FloatVal(p[13]), FloatVal(p[14])>>]

\* the two loops of get_nodes_arrays from line i of block b on: the accepted
\* (node_id, (x, y, z)) in the order appended
RECURSIVE NodePairsFrom(_, _, _, _)
NodePairsFrom(bs, b, i, acc) ==
    IF b > Len(bs) THEN Return(acc)
    ELSE IF i > Len(bs[b].lines) THEN NodePairsFrom(bs, b + 1, 1, acc)
    ELSE LET p == _parse_csv_line_fast(bs[b].lines[i]) IN
         IF Len(p) >= 14 THEN
             IF NodeExc(p) = "none"
             THEN NodePairsFrom(bs, b, i + 1, Append(acc, NodeOf(p)))
             ELSE IF NodeExc(p) \in Caught THEN NodePairsFrom(bs, b, i + 1, acc)
             ELSE Raise(NodeExc(p))
         ELSE NodePairsFrom(bs, b, i + 1, acc)

\* the two loops of get_nodes: nodes[node_id] = (x, y, z)
RECURSIVE NodesFrom(_, _, _, _)
NodesFrom(bs, b, i, nodes) ==
    IF b > Len(bs) THEN Return(nodes)
    ELSE IF i > Len(bs[b].lines) THEN NodesFrom(bs, b + 1, 1, nodes)
    ELSE LET p == _parse_csv_line_fast(bs[b].lines[i]) IN
         IF Len(p) >= 14 THEN
             IF NodeExc(p) = "none"
             THEN NodesFrom(bs, b, i + 1, DictSet(nodes, NodeOf(p).id, NodeOf(p).coords))
             ELSE IF NodeExc(p) \in Caught THEN NodesFrom(bs, b, i + 1, nodes)
             ELSE Raise(NodeExc(p))
         ELSE NodesFrom(bs, b, i + 1, nodes)

\* a slip: only the first Block 403 read, as get_header reads Block 100
get_nodes_first_block(blks) ==
    LET bs == get_blocks(blks, 403)
    IN  NodesFrom(IF bs = <<>> THEN <<>> ELSE <<bs[1]>>, 1, 1, <<>>)

get_nodes(blks) == NodesFrom(get_blocks(blks, 403), 1, 1, <<>>)

\* get_nodes_arrays: np.array(coord_list) of an empty list has one
\* dimension, and the assignment to the two-dimensional buffer coords then
\* raises ValueError
get_nodes_arrays(blks) ==
    LET r == NodePairsFrom(get_blocks(blks, 403), 1, 1, <<>>) IN
    IF r.exc # "none" THEN r
    ELSE IF r.val = <<>> THEN Raise("ValueError")
    ELSE Return([node_ids |-> [j \in 1..Len(r.val) |-> r.val[j].id],
                 coords |-> [j \in 1..Len(r.val) |-> r.val[j].coords]])

\* a title line as the 402, 450 and 1051 extractors read it
TitleOf(l) ==
    LET title == RStrip(Strip(l), {","})
    IN  IF title = "<NULL>" THEN "" ELSE title

\* [int_exc(t) for t in toks] and [float_exc(t) for t in toks]
IntExcs(toks) == [k \in 1..Len(toks) |-> int_exc(toks[k])]
FloatExcs(toks) == [k \in 1..Len(toks) |-> float_exc(toks[k])]
FloatVals(toks) == [k \in 1..Len(toks) |-> FloatVal(toks[k])]

\* a slip: only the zeros at the end of the list are dropped
TrailingZerosStripped(toks) ==
    LET keep == {k \in 1..Len(toks) : IntVal(toks[k]) # 0}
    IN  IF keep = {} THEN <<>> ELSE [k \in 1..SetMax(keep) |-> IntVal(toks[k])]

\* the list after "for nstr in toks: n = int(nstr); if n != 0: append(n)"
RECURSIVE NonZeroInts(_)
NonZeroInts(toks) ==
    IF toks = <<>> THEN <<>>
    ELSE (IF IntVal(Head(toks)) # 0 THEN <<IntVal(Head(toks))>> ELSE <<>>)
         \o NonZeroInts(Tail(toks))

\* get_properties: the loops from line i of block b on
RECURSIVE PropertiesFrom(_, _, _, _)
PropertiesFrom(bs, b, i, properties) ==
    IF b > Len(bs) THEN Return(properties)
    ELSE IF i > Len(bs[b].lines) THEN PropertiesFrom(bs, b + 1, 1, properties)
    ELSE LET lines == bs[b].lines
             p == _parse_csv_line_fast(lines[i])
         IN  IF Len(p) >= 3 THEN
                 LET exc == FirstExc(<<int_exc(p[1]), int_exc(p[3])>>)
                     title == IF i + 1 <= Len(lines) THEN TitleOf(lines[i + 1]) ELSE ""
                 IN  IF exc = "none"
                     THEN PropertiesFrom(bs, b, i + 7,
                              DictSet(properties, IntVal(p[1]),
                                      [material_id |-> IntVal(p[3]), title |-> title]))
                     ELSE IF exc \in Caught THEN PropertiesFrom(bs, b, i + 1, properties)
                     ELSE Raise(exc)
             ELSE PropertiesFrom(bs, b, i + 1, properties)

get_properties(blks) == PropertiesFrom(get_blocks(blks, 402), 1, 1, <<>>)

\* the two connectivity lines of the record at line i, tokenized
Nodes1(lines, i) == IF i + 1 <= Len(lines) THEN _parse_csv_line_fast(lines[i + 1]) ELSE <<>>
Nodes2(lines, i) == IF i + 2 <= Len(lines) THEN _parse_csv_line_fast(lines[i + 2]) ELSE <<>>

\* get_elements: the loops from line i of block b on
RECURSIVE ElementsFrom(_, _, _, _)
ElementsFrom(bs, b, i, elements) ==
    IF b > Len(bs) THEN Return(elements)
    ELSE IF i > Len(bs[b].lines) THEN ElementsFrom(bs, b + 1, 1, elements)
    ELSE LET lines == bs[b].lines
             p == _parse_csv_line_fast(lines[i])
         IN  IF Len(p) >= 5 THEN
                 LET conn == Nodes1(lines, i) \o Nodes2(lines, i)
                     exc == FirstExc(<<int_exc(p[1]), int_exc(p[3]), int_exc(p[5])>>
                                     \o IntExcs(conn))
                 IN  IF exc = "none"
                     THEN ElementsFrom(bs, b, i + 7,
                              Append(elements,
                                     [id |-> IntVal(p[1]), prop_id |-> IntVal(p[3]),
                                      topology |-> IntVal(p[5]),
                                      nodes |-> NonZeroInts(conn)]))
                     ELSE IF exc \in Caught THEN ElementsFrom(bs, b, i + 1, elements)
                     ELSE Raise(exc)
             ELSE ElementsFrom(bs, b, i + 1, elements)

get_elements(blks) == ElementsFrom(get_blocks(blks, 404), 1, 1, <<>>)

NoArrays ==
    [element_ids |-> <<>>, prop_ids |-> <<>>, topologies |-> <<>>,
     connectivity |-> <<>>, offsets |-> <<0>>]

\* get_elements_arrays: the ID, property and topology are appended before
\* the connectivity lines are read, the offset after them
RECURSIVE ElementArraysFrom(_, _, _, _)
ElementArraysFrom(bs, b, i, a) ==
    IF b > Len(bs) THEN Return(a)
    ELSE IF i > Len(bs[b].lines) THEN ElementArraysFrom(bs, b + 1, 1, a)
    ELSE LET lines == bs[b].lines
             p == _parse_csv_line_fast(lines[i])
         IN  IF Len(p) >= 5 THEN
                 LET hexc == FirstExc(<<int_exc(p[1]), int_exc(p[3]), int_exc(p[5])>>)
                     conn == Nodes1(lines, i) \o Nodes2(lines, i)
                     bad == {k \in 1..Len(conn) : int_exc(conn[k]) # "none"}
                     read == IF bad = {} THEN conn ELSE SubSeq(conn, 1, SetMin(bad) - 1)
                     cexc == IF bad = {} THEN "none" ELSE int_exc(conn[SetMin(bad)])
                     a1 == [a EXCEPT !.element_ids = Append(@, IntVal(p[1])),
                                     !.prop_ids = Append(@, IntVal(p[3])),
                                     !.topologies = Append(@, IntVal(p[5])),
                                     !.connectivity = @ \o NonZeroInts(read)]
                     a2 == [a1 EXCEPT !.offsets = Append(@, Len(a1.connectivity))]
                 IN  IF hexc = "none" THEN
                         IF cexc = "none" THEN ElementArraysFrom(bs, b, i + 7, a2)
                         ELSE IF cexc \in Caught THEN ElementArraysFrom(bs, b, i + 1, a1)
                         ELSE Raise(cexc)
                     ELSE IF hexc \in Caught THEN ElementArraysFrom(bs, b, i + 1, a)
                     ELSE Raise(hexc)
             ELSE ElementArraysFrom(bs, b, i + 1, a)

get_elements_arrays(blks) == ElementArraysFrom(get_blocks(blks, 404), 1, 1, NoArrays)

\* get_materials: the loops from line i of block b on
RECURSIVE MaterialsFrom(_, _, _, _)
MaterialsFrom(bs, b, i, materials) ==
    IF b > Len(bs) THEN Return(materials)
    ELSE IF i > Len(bs[b].lines) THEN MaterialsFrom(bs, b + 1, 1, materials)
    ELSE LET p == _parse_csv_line_fast(bs[b].lines[i]) IN
         IF Len(p) >= 1 THEN
             IF int_exc(p[1]) = "none"
             THEN MaterialsFrom(bs, b, i + 1,
                      DictSet(materials, IntVal(p[1]), [id |-> IntVal(p[1])]))
             ELSE IF int_exc(p[1]) \in Caught THEN MaterialsFrom(bs, b, i + 1, materials)
             ELSE Raise(int_exc(p[1]))
         ELSE MaterialsFrom(bs, b, i + 1, materials)

get_materials(blks) == MaterialsFrom(get_blocks(blks, 601), 1, 1, <<>>)

Zero == [m |-> 0, d |-> 0]

\* get_output_sets: the loops from line i of block b on
RECURSIVE OutputSetsFrom(_, _, _, _)
OutputSetsFrom(bs, b, i, output_sets) ==
    IF b > Len(bs) THEN Return(output_sets)
    ELSE IF i > Len(bs[b].lines) THEN OutputSetsFrom(bs, b + 1, 1, output_sets)
    ELSE LET lines == bs[b].lines
             p == _parse_csv_line_fast(lines[i])
         IN  IF Len(p) >= 1 THEN
                 LET title == IF i + 1 <= Len(lines) THEN TitleOf(lines[i + 1]) ELSE ""
                     value_parts == IF i + 3 <= Len(lines)
                                    THEN _parse_csv_line_fast(lines[i + 3]) ELSE <<>>
                     exc == FirstExc(<<int_exc(p[1])>>
                                     \o (IF Len(value_parts) >= 1
                                         THEN <<float_exc(value_parts[1])>> ELSE <<>>))
                     value == IF Len(value_parts) >= 1 THEN FloatVal(value_parts[1]) ELSE Zero
                 IN  IF exc = "none"
                     THEN OutputSetsFrom(bs, b, i + 6,
                              DictSet(output_sets, IntVal(p[1]),
                                      [title |-> title, value |-> value]))
                     ELSE IF exc \in Caught THEN OutputSetsFrom(bs, b, i + 1, output_sets)
                     ELSE Raise(exc)
             ELSE OutputSetsFrom(bs, b, i + 1, output_sets)

\* a slip: only the first Block 450 of the file is read
get_output_sets_first_block(blks) == OutputSetsFrom(get_blocks_first(blks, 450), 1, 1, <<>>)

get_output_sets(blks) == OutputSetsFrom(get_blocks(blks, 450), 1, 1, <<>>)

-----------------------------------------------------------------------------
(* Block 1051: get_output_vectors and get_output_vectors_arrays            *)

\* the line that ends the result records of a vector
\* a slip: the end marker told by its first field alone
IsEndMarkerFirstField(rp) == Len(rp) >= 2 /\ rp[1] = "-1"

IsEndMarker(rp) == Len(rp) >= 2 /\ rp[1] = "-1" /\ rp[2] = "0."

\* the inner while of a Format-2 record: continuation lines are read as
\* values until entity_count values are there, the end marker is seen or
\* the block ends.  [exc, i, values]; on an exception i is the line read.
RECURSIVE ContinuationFrom(_, _, _, _)
ContinuationFrom(lines, i, values, entity_count) ==
    IF Len(values) < entity_count /\ i <= Len(lines) THEN
        LET cont_parts == _parse_csv_line_fast(lines[i]) IN
        IF IsEndMarker(cont_parts) THEN [exc |-> "none", i |-> i, values |-> values]
        ELSE IF FirstExc(FloatExcs(cont_parts)) # "none"
             THEN [exc |-> FirstExc(FloatExcs(cont_parts)), i |-> i, values |-> values]
        ELSE ContinuationFrom(lines, i + 1, values \o FloatVals(cont_parts), entity_count)
    ELSE [exc |-> "none", i |-> i, values |-> values]

\* a slip: every value collected is assigned
RunLengthCollected(values, entity_count) == Len(values)

\* min(len(values), entity_count), never below the empty range
RunLength(values, entity_count) ==
    IF entity_count <= 0 THEN 0
    ELSE IF Len(values) < entity_count THEN Len(values) ELSE entity_count

\* the (entity, value) pairs a Format-2 record assigns, in order
RunPairs(start_id, values, entity_count) ==
    [k \in 1..RunLength(values, entity_count) |->
        [id |-> start_id + (k - 1), value |-> values[k]]]

\* the result loop of a vector from line i on: the (entity, value) pairs in
\* the order assigned.  [exc, i, pairs]; on an exception i is the line at
\* which it was raised.
RECURSIVE ResultsFrom(_, _, _)
ResultsFrom(lines, i, pairs) ==
    IF i > Len(lines) THEN [exc |-> "none", i |-> i, pairs |-> pairs]
    ELSE LET result_parts == _parse_csv_line_fast(lines[i]) IN
         IF IsEndMarker(result_parts) THEN [exc |-> "none", i |-> i + 1, pairs |-> pairs]
         ELSE IF Len(result_parts) = 2 THEN
             LET exc == FirstExc(<<int_exc(result_parts[1]), float_exc(result_parts[2])>>)
             IN  IF exc # "none" THEN [exc |-> exc, i |-> i, pairs |-> pairs]
                 ELSE ResultsFrom(lines, i + 1,
                          Append(pairs, [id |-> IntVal(result_parts[1]),
                                         value |-> FloatVal(result_parts[2])]))
         ELSE IF Len(result_parts) > 2 THEN
             LET rest == SubSeq(result_parts, 3, Len(result_parts))
                 exc == FirstExc(<<int_exc(result_parts[1]), int_exc(result_parts[2])>>
                                 \o FloatExcs(rest))
             IN  IF exc # "none" THEN [exc |-> exc, i |-> i, pairs |-> pairs]
                 ELSE LET start_id == IntVal(result_parts[1])
                          end_id == IntVal(result_parts[2])
                          entity_count == end_id - start_id + 1
                          c == ContinuationFrom(lines, i + 1, FloatVals(rest), entity_count)
                      IN  IF c.exc # "none" THEN [exc |-> c.exc, i |-> c.i, pairs |-> pairs]
                          ELSE ResultsFrom(lines, c.i,
                                   pairs \o RunPairs(start_id, c.values, entity_count))
         ELSE ResultsFrom(lines, i + 1, pairs)

\* results[entity] = value for each pair in order
RECURSIVE DictOf(_, _)
DictOf(pairs, d) ==
    IF pairs = <<>> THEN d
    ELSE DictOf(Tail(pairs), DictSet(d, Head(pairs).id, Head(pairs).value))

\* field 3 of the sixth line of a vector header: <<ent_type>>, or <<>> when
\* the line is missing or short (has_ent_type False)
Line6(lines, i) ==
    IF i + 5 <= Len(lines) THEN _parse_csv_line_fast(lines[i + 5]) ELSE <<>>
EntTypeExc(lines, i) ==
    IF Len(Line6(lines, i)) >= 4 THEN int_exc(Line6(lines, i)[4]) ELSE "none"
EntTypeOf(lines, i) ==
    IF Len(Line6(lines, i)) >= 4 THEN <<IntVal(Line6(lines, i)[4])>> ELSE <<>>

\* get_output_vectors: the loops from line i of block b on
RECURSIVE VectorsFrom(_, _, _, _)
VectorsFrom(bs, b, i, output_vectors) ==
    IF b > Len(bs) THEN Return(output_vectors)
    ELSE IF i > Len(bs[b].lines) THEN VectorsFrom(bs, b + 1, 1, output_vectors)
    ELSE LET lines == bs[b].lines
             p == _parse_csv_line_fast(lines[i])
         IN  IF Len(p) >= 2 THEN
                 LET hexc == FirstExc(<<int_exc(p[1]), int_exc(p[2]), EntTypeExc(lines, i)>>)
                     title == IF i + 1 <= Len(lines) THEN TitleOf(lines[i + 1]) ELSE ""
                     r == ResultsFrom(lines, i + 7, <<>>)
                 IN  IF hexc = "none" THEN
                         IF r.exc = "none"
                         THEN VectorsFrom(bs, b, r.i,
                                  Append(output_vectors,
                                         [set_id |-> IntVal(p[1]), vec_id |-> IntVal(p[2]),
                                          title |-> title, ent_type |-> EntTypeOf(lines, i),
                                          results |-> DictOf(r.pairs, <<>>)]))
                         ELSE IF r.exc \in Caught
                              THEN VectorsFrom(bs, b, r.i + 1, output_vectors)
                         ELSE Raise(r.exc)
                     ELSE IF hexc \in Caught THEN VectorsFrom(bs, b, i + 1, output_vectors)
                     ELSE Raise(hexc)
             ELSE VectorsFrom(bs, b, i + 1, output_vectors)

\* a slip: the Block 1051 instances walked from the last to the first
get_output_vectors_last_block_first(blks) ==
    LET bs == get_blocks(blks, 1051)
    IN  VectorsFrom([k \in 1..Len(bs) |-> bs[Len(bs) + 1 - k]], 1, 1, <<>>)
get_output_vectors(blks) == VectorsFrom(get_blocks(blks, 1051), 1, 1, <<>>)

\* "Skip to end marker": the lines are read, not parsed, up to and including
\* the end marker
RECURSIVE SkipToEndMarker(_, _)
SkipToEndMarker(lines, i) ==
    IF i > Len(lines) THEN i
    ELSE IF IsEndMarker(_parse_csv_line_fast(lines[i])) THEN i + 1
    ELSE SkipToEndMarker(lines, i + 1)

\* (None, None, -1, -1, -1)
NoVector ==
    [found |-> FALSE, entity_ids |-> <<>>, values |-> <<>>,
     set_id |-> -1, vec_id |-> -1, ent_type |-> -1]

\* get_output_vectors_arrays: the loops from line i of block b on
RECURSIVE VectorArraysFrom(_, _, _, _, _)
VectorArraysFrom(bs, b, i, set_id_filter, vec_id_filter) ==
    IF b > Len(bs) THEN Return(NoVector)
    ELSE IF i > Len(bs[b].lines)
         THEN VectorArraysFrom(bs, b + 1, 1, set_id_filter, vec_id_filter)
    ELSE LET lines == bs[b].lines
             p == _parse_csv_line_fast(lines[i])
         IN  IF Len(p) >= 2 THEN
                 LET exc == FirstExc(<<int_exc(p[1]), int_exc(p[2])>>)
                     r == ResultsFrom(lines, i + 7, <<>>)
                 IN  IF exc = "none" THEN
                         IF \/ set_id_filter >= 0 /\ IntVal(p[1]) # set_id_filter
                            \/ vec_id_filter >= 0 /\ IntVal(p[2]) # vec_id_filter
                         THEN VectorArraysFrom(bs, b, SkipToEndMarker(lines, i + 7),
                                               set_id_filter, vec_id_filter)
                         ELSE IF EntTypeExc(lines, i) = "none" THEN
                             IF r.exc = "none"
                             THEN Return([found |-> TRUE,
                                          entity_ids |-> [k \in 1..Len(r.pairs) |-> r.pairs[k].id],
                                          values |-> [k \in 1..Len(r.pairs) |-> r.pairs[k].value],
                                          set_id |-> IntVal(p[1]), vec_id |-> IntVal(p[2]),
                                          ent_type |-> IF EntTypeOf(lines, i) = <<>> THEN -1
                                                       ELSE EntTypeOf(lines, i)[1]])
                             ELSE IF r.exc \in Caught
                                  THEN VectorArraysFrom(bs, b, r.i + 1,
                                                        set_id_filter, vec_id_filter)
                             ELSE Raise(r.exc)
                         ELSE IF EntTypeExc(lines, i) \in Caught
                              THEN VectorArraysFrom(bs, b, i + 1, set_id_filter, vec_id_filter)
                         ELSE Raise(EntTypeExc(lines, i))
                     ELSE IF exc \in Caught
                          THEN VectorArraysFrom(bs, b, i + 1, set_id_filter, vec_id_filter)
                     ELSE Raise(exc)
             ELSE VectorArraysFrom(bs, b, i + 1, set_id_filter, vec_id_filter)

get_output_vectors_arrays(blks, set_id_filter, vec_id_filter) ==
    VectorArraysFrom(get_blocks(blks, 1051), 1, 1, set_id_filter, vec_id_filter)

-----------------------------------------------------------------------------
(* FEMAPParser instances: construction and the public methods              *)

Unset == [set |-> FALSE, val |-> <<>>]
Returned(v) == [set |-> TRUE, val |-> v]

Parsers == DOMAIN files

NotCalled == [fn |-> "none", args |-> <<>>]

\* no method is walked step by step
NotStarted == [fn |-> "none", at |-> "idle", b |-> 0, i |-> 0, have |-> 0, need |-> 0]
NoReturn == [exc |-> "none", val |-> <<>>]

Builds == {"propagates", "ignores"}

\* no line is being tokenized
TokIdle == line = "" /\ parts = Unset /\ alt = Unset

\* no conversion is under way
ConvIdle ==
    /\ sets = <<>>
    /\ pvd = Unset
    /\ pc = "idle"
    /\ running = {}
    /\ written = <<>>
    /\ failed = {}
    /\ mesh = Unset
    /\ vectors = <<>>
    /\ vtm = {}

ParserIdle ==
    /\ files = <<>>
    /\ made = <<>>
    /\ build = "propagates"
    /\ status = <<>>
    /\ blocks = <<>>
    /\ call = NotCalled
    /\ ret = <<>>
    /\ cursor = NotStarted

\* the state right after the files were written and before any
\* FEMAPParser is constructed
ParserStart(fs, how) ==
    /\ files = fs
    /\ made = how
    /\ build \in Builds
    /\ status = [p \in DOMAIN fs |-> "new"]
    /\ blocks = [p \in DOMAIN fs |-> NoBlocks]
    /\ call = NotCalled
    /\ ret = [p \in DOMAIN fs |-> NoReturn]
    /\ cursor = NotStarted

\* FEMAPParser(filepath): __init__ runs _parse.  _parse is a cdef void
\* function without an exception clause: an exception other than the
\* ValueError it catches either reaches the caller of the constructor
\* (build = "propagates") or is written to stderr and dropped, the
\* constructor returning with the blocks stored so far (build = "ignores"),
\* depending on the Cython version the extension is built with.
Construct(p) ==
    /\ status[p] = "new"
    /\ LET r == _parse(files[p]) IN
       /\ blocks' = [blocks EXCEPT ![p] = r.blocks]
       /\ status' = [status EXCEPT ![p] =
                        IF r.exc # "none" /\ build = "propagates" THEN "raised" ELSE "ok"]
    /\ UNCHANGED <<files, made, build, call, ret, cursor, tokVars, convVars>>

\* a method called on every instance that was constructed; one call is
\* followed per behaviour
CallAll(fn, args, Method(_)) ==
    /\ call = NotCalled
    /\ \A p \in Parsers : status[p] # "new"
    /\ \E p \in Parsers : status[p] = "ok"
    /\ call' = [fn |-> fn, args |-> args]
    /\ ret' = [p \in Parsers |-> IF status[p] = "ok" THEN Method(blocks[p]) ELSE ret[p]]
    /\ UNCHANGED <<files, made, build, status, blocks, cursor, tokVars, convVars>>

GetHeader == CallAll("get_header", <<>>, get_header)
GetNodes == CallAll("get_nodes", <<>>, get_nodes)
GetNodesArrays == CallAll("get_nodes_arrays", <<>>, get_nodes_arrays)
GetProperties == CallAll("get_properties", <<>>, get_properties)
GetElements == CallAll("get_elements", <<>>, get_elements)
GetElementsArrays == CallAll("get_elements_arrays", <<>>, get_elements_arrays)
GetMaterials == CallAll("get_materials", <<>>, get_materials)
GetOutputSets == CallAll("get_output_sets", <<>>, get_output_sets)
GetOutputVectors == CallAll("get_output_vectors", <<>>, get_output_vectors)

\* the filter arguments tried: no filter, and the set and vector IDs the
\* written vectors use
FilterIds == {-1, 1, 2, 5}

\* the filter arguments of the calls walked step by step: none, a set ID
\* and a vector ID
WalkFilters == {<<-1, -1>>, <<2, -1>>, <<-1, 3>>}

GetOutputVectorsArrays ==
    \E sf \in FilterIds, vf \in FilterIds :
        LET Method(blks) == get_output_vectors_arrays(blks, sf, vf)
        IN  CallAll("get_output_vectors_arrays", <<sf, vf>>, Method)

-----------------------------------------------------------------------------
(* Files as they are written: blocks between delimiter lines               *)

\* "   -1", the ID line, the lines of the block, "   -1"
WriteBlock(b) == <<BLOCK_DELIMITER, b.idline>> \o b.lines \o <<BLOCK_DELIMITER>>

RECURSIVE WriteFile(_)
WriteFile(bs) ==
    IF bs = <<>> THEN <<>> ELSE WriteBlock(Head(bs)) \o WriteFile(Tail(bs))

\* the sequences of at most n elements of S
RECURSIVE SeqsUpTo(_, _)
SeqsUpTo(S, n) ==
    IF n = 0 THEN {<<>>}
    ELSE LET shorter == SeqsUpTo(S, n - 1)
         IN  shorter \cup {Append(q, x) : q \in shorter, x \in S}

\* the sequence with elements k and k + 1 exchanged
SwapAt(q, k) ==
    [j \in 1..Len(q) |-> IF j = k THEN q[k + 1] ELSE IF j = k + 1 THEN q[k] ELSE q[j]]

Filler == "0,0,0,0,0,0,0,0,0,0,"

\* decimal digits of a natural number, and a float written "<int>.<frac>"
RECURSIVE Dec(_)
Dec(n) ==
    LET d == CHOOSE c \in Digits : DigitVal(c) = n % 10
    IN  IF n < 10 THEN d ELSE Dec(n \div 10) \o d

\* a float m / 10^d (d <= 2) as FEMAP writes it: "1.", "0.01", "2.5"
Flt(v) ==
    LET scale == IF v.d = 0 THEN 1 ELSE IF v.d = 1 THEN 10 ELSE 100
        frac == v.m % scale
    IN  Dec(v.m \div scale) \o "."
        \o (IF v.d = 0 THEN "" ELSE IF v.d = 2 /\ frac < 10 THEN "0" \o Dec(frac) ELSE Dec(frac))

F(m, d) == [m |-> m, d |-> d]

\* what is written: the ID line, the lines, and the records the lines were
\* written from
Block(idline, lines, recs) == [idline |-> idline, lines |-> lines, recs |-> recs]

\* a record together with the lines that write it
Rec(lines, data) == [lines |-> lines, data |-> data, complete |-> TRUE]

RECURSIVE LinesOf(_)
LinesOf(recs) == IF recs = <<>> THEN <<>> ELSE Head(recs).lines \o LinesOf(Tail(recs))

BlockOf(idline, recs) == Block(idline, LinesOf(recs), [k \in 1..Len(recs) |-> recs[k].data])

\* Block 403: ID,0,0,1,46,0,0,0,0,0,0,x,y,z,
NodeRec(id, x, y, z) ==
    Rec(<<Dec(id) \o ",0,0,1,46,0,0,0,0,0,0," \o Flt(x) \o "," \o Flt(y) \o "," \o Flt(z) \o ",">>,
        [id |-> id, coords |-> <<x, y, z>>])

\* Block 402: seven lines, the title on the second
PropertyRec(id, mat, title) ==
    Rec(<<Dec(id) \o ",110," \o Dec(mat) \o ",10,1,0,0,", title \o ",", "0,0,0,0,", "4,",
          "0,0,0,0,", "1,", "0.,">>,
        [id |-> id, material_id |-> mat, title |-> title])

RECURSIVE CommaList(_)
CommaList(ns) == IF ns = <<>> THEN "" ELSE Dec(Head(ns)) \o "," \o CommaList(Tail(ns))

\* Block 404: seven lines, the connectivity on the second and third
ElementRec(id, prop, topo, conn1, conn2) ==
    Rec(<<Dec(id) \o ",124," \o Dec(prop) \o ",25," \o Dec(topo) \o ",1,0,0,",
          CommaList(conn1), CommaList(conn2),
          "0.,0.,0.,", "0.,0.,0.,", "0.,0.,0.,", "0,0,0,0,0,0,0,0,0,0,0,0,0,0,0,0,">>,
        [id |-> id, prop_id |-> prop, topology |-> topo, conn |-> conn1 \o conn2])

\* Block 601: the material ID leads the first line of the record
MaterialRec(id) == Rec(<<Dec(id) \o ",">>, [id |-> id])

\* Block 450: six lines, the title on the second and the value on the fourth
OutputSetRec(id, title, value) ==
    Rec(<<Dec(id) \o ",", title \o ",", "0,0,", Flt(value) \o ",", "1,", "<NULL>,">>,
        [id |-> id, title |-> title, value |-> value])

\* Block 1051: the seven header lines of a vector
VectorHeader(set_id, vec_id, title, ent_type) ==
    <<Dec(set_id) \o "," \o Dec(vec_id) \o ",1,", title \o ",", "0.,-1.,0.,", Filler, Filler,
      "0,0,3," \o Dec(ent_type) \o ",", "0,1,1,">>

EndMarker == "-1,0.,"

\* a vector whose results are written one entity per line (Format 1)
VectorRec(set_id, vec_id, title, ent_type, results) ==
    Rec(VectorHeader(set_id, vec_id, title, ent_type)
        \o [k \in 1..Len(results) |-> Dec(results[k].id) \o "," \o Flt(results[k].value) \o ","]
        \o <<EndMarker>>,
        [set_id |-> set_id, vec_id |-> vec_id, title |-> title, ent_type |-> ent_type,
         results |-> results])

Header100 == Block("   100", <<"<NULL>,", "4.41,">>, <<>>)

\* per block family: blocks that share a key, and others
Pool(family) ==
    CASE family = 403 ->
           {BlockOf("   403", <<NodeRec(5, F(0, 0), F(0, 0), F(0, 0)),
                               NodeRec(1, F(1, 0), F(0, 0), F(0, 0))>>),
            BlockOf("   403", <<NodeRec(2, F(0, 0), F(1, 0), F(0, 0)),
                               NodeRec(1, F(0, 0), F(0, 0), F(25, 1))>>),
            Header100}
      [] family = 402 ->
           {BlockOf("   402", <<PropertyRec(7, 3, "<NULL>")>>),
            BlockOf("   402", <<PropertyRec(7, 4, "core"), PropertyRec(8, 3, "coil")>>),
            Header100}
      [] family = 404 ->
           {BlockOf("   404", <<ElementRec(10, 7, 2, <<1, 2, 5, 0, 0, 0, 0, 0, 0, 0>>,
                                          <<0, 0, 0, 0, 0, 0, 0, 0, 0, 0>>)>>),
            BlockOf("   404", <<ElementRec(11, 7, 2, <<2, 0, 1, 0, 0, 0, 0, 0, 0, 0>>,
                                          <<5, 0, 0, 0, 0, 0, 0, 0, 0, 0>>)>>),
            Header100}
      [] family = 601 ->
           {BlockOf("   601", <<MaterialRec(3), Rec(<<"x,">>, [id |-> 0])>>),
            BlockOf("   601", <<MaterialRec(4), MaterialRec(3)>>),
            Block("   601", <<"2147483648,">>, <<>>),
            Block("   99999999999", <<"1,">>, <<>>)}
      [] family = 450 ->
           {BlockOf("   450", <<OutputSetRec(1, "STEP1", F(1, 2))>>),
            BlockOf("   450", <<OutputSetRec(2, "STEP2", F(2, 2)),
                               OutputSetRec(1, "<NULL>", F(3, 2))>>),
            Header100}
      [] family = 1051 ->
           {BlockOf("   1051", <<VectorRec(1, 2, "Bx", 7, <<[id |-> 5, value |-> F(15, 1)]>>)>>),
            BlockOf("   1051", <<VectorRec(2, 2, "Bx", 8, <<[id |-> 5, value |-> F(1, 0)],
                                                           [id |-> 6, value |-> F(2, 0)]>>)>>),
            Header100}

Families == {403, 402, 404, 601, 450, 1051}

\* the files of the main specification: at most MaxBlocks blocks of one
\* pool, and the same blocks with two neighbours exchanged
Init ==
    /\ TokIdle
    /\ ConvIdle
    /\ \E family \in Families :
         \E bs \in SeqsUpTo(Pool(family), MaxBlocks) :
            \E k \in 0..(Len(bs) - 1) :
               (k = 0 <=> Len(bs) < 2)
               /\ ParserStart(<<WriteFile(bs),
                               WriteFile(IF k = 0 THEN bs ELSE SwapAt(bs, k))>>,
                              [family |-> family, written |-> bs, swap |-> k])

Next ==
    \/ \E p \in Parsers : Construct(p)
    \/ GetHeader
    \/ GetNodes
    \/ GetNodesArrays
    \/ GetProperties
    \/ GetElements
    \/ GetElementsArrays
    \/ GetMaterials
    \/ GetOutputSets
    \/ GetOutputVectors
    \/ GetOutputVectorsArrays

Spec == Init /\ [][Next]_vars

-----------------------------------------------------------------------------
(* Claims on the files of Spec                                             *)

\* the blocks of file p in file order
WrittenBlocks(p) ==
    IF p = 1 \/ made.swap = 0 THEN made.written ELSE SwapAt(made.written, made.swap)

\* the ID line of a written block as the scanner reads it
IdText(b) == Strip(b.idline)

\* r1 == r2 in Python for what method fn returns or raises
PyEq(fn, r1, r2) ==
    /\ r1.exc = r2.exc
    /\ r1.exc = "none" =>
         CASE fn \in {"get_nodes", "get_properties", "get_materials", "get_output_sets"} ->
                DictItems(r1.val) = DictItems(r2.val)
           [] fn = "get_output_vectors" ->
                /\ Len(r1.val) = Len(r2.val)
                /\ \A k \in 1..Len(r1.val) :
                      /\ [r1.val[k] EXCEPT !.results = <<>>] = [r2.val[k] EXCEPT !.results = <<>>]
                      /\ DictItems(r1.val[k].results) = DictItems(r2.val[k].results)
           [] OTHER -> r1.val = r2.val

SixExtractors ==
    {"get_nodes", "get_elements", "get_properties", "get_materials",
     "get_output_sets", "get_output_vectors"}

BothConstructed == \A p \in Parsers : status[p] = "ok"

\* the exchange, if any, was of two blocks with different IDs
SameIdOrderKept ==
    made.swap = 0 \/ IdText(made.written[made.swap]) # IdText(made.written[made.swap + 1])

\* every ID line written is an integer that fits a C int
BlockIdsFit == \A k \in 1..Len(made.written) : int_exc(IdText(made.written[k])) = "none"

\* C1 as stated: two files with the same top-level blocks in a different
\* order give equal results from each of the node, element, property,
\* material, output-set and output-vector extractors.
C1_BlockOrderIndependence_Original ==
    (call.fn \in SixExtractors /\ BothConstructed) => PyEq(call.fn, ret[1], ret[2])

\* C1 amended: two files with the same top-level blocks, every ID line a
\* C int, in orders that keep the blocks of each ID in the same relative
\* order, give equal results from each of the six extractors.
C1_BlockOrderIndependence ==
    (call.fn \in SixExtractors /\ BothConstructed /\ SameIdOrderKept /\ BlockIdsFit)
        => PyEq(call.fn, ret[1], ret[2])

\* two Block 404 with a Block 100 between them, the Block 100 exchanged
\* with its neighbour, and both files giving the same two elements
C1_Witness ==
    /\ call.fn = "get_elements"
    /\ made.swap >= 1 /\ SameIdOrderKept
    /\ Len(made.written) = 3
    /\ IdText(made.written[1]) = "404" /\ IdText(made.written[3]) = "404"
    /\ files[1] # files[2]
    /\ ret[1].exc = "none" /\ Len(ret[1].val) = 2
    /\ ret[1].val = ret[2].val

\* C3 as stated: constructing FEMAPParser and calling any get_* extractor
\* returns normally whatever the lines of the file hold.
C3_NoParseException ==
    \A p \in Parsers : status[p] # "raised" /\ ret[p].exc = "none"

\* the node records of the Block 403 instances of file p, in file order
RECURSIVE WrittenRecs(_, _)
WrittenRecs(bs, id) ==
    IF bs = <<>> THEN <<>>
    ELSE (IF IdText(Head(bs)) = id THEN Head(bs).recs ELSE <<>>) \o WrittenRecs(Tail(bs), id)

IsAscending(q) == \A j \in 1..(Len(q) - 1) : q[j] < q[j + 1]

\* the keys of records in the order of their first appearance
RECURSIVE FirstSeen(_, _)
FirstSeen(recs, seen) ==
    IF recs = <<>> THEN seen
    ELSE FirstSeen(Tail(recs),
                   IF \E j \in 1..Len(seen) : seen[j] = Head(recs).id
                   THEN seen ELSE Append(seen, Head(recs).id))

\* the record written last for a key
LastWritten(recs, id) == recs[SetMax({j \in 1..Len(recs) : recs[j].id = id})]

\* C7 as stated: with several Block 403 instances separated by other
\* blocks, get_nodes returns the union of the nodes of all instances,
\* ordered ascending by node ID.
C7_NodeUnion_Original ==
    (call.fn = "get_nodes" /\ made.family = 403) =>
        \A p \in Parsers :
            LET recs == WrittenRecs(WrittenBlocks(p), "403") IN
            /\ ret[p].exc = "none"
            /\ {ret[p].val[j].key : j \in 1..Len(ret[p].val)} = {recs[j].id : j \in 1..Len(recs)}
            /\ IsAscending(DictKeys(ret[p].val))

\* C7 amended: get_nodes returns the union of the nodes of all Block 403
\* instances, each node ID once with the coordinates written last for it,
\* in the order in which the IDs first appear in the file; the arrays of
\* get_nodes_arrays hold every node line in file order.
C7_NodeUnion ==
    (call.fn \in {"get_nodes", "get_nodes_arrays"} /\ made.family = 403) =>
        \A p \in Parsers :
            LET recs == WrittenRecs(WrittenBlocks(p), "403") IN
            /\ call.fn = "get_nodes" =>
                  /\ ret[p].exc = "none"
                  /\ DictKeys(ret[p].val) = FirstSeen(recs, <<>>)
                  /\ \A j \in 1..Len(ret[p].val) :
                        ret[p].val[j].value = LastWritten(recs, ret[p].val[j].key).coords
            /\ (call.fn = "get_nodes_arrays" /\ ret[p].exc = "none") =>
                  /\ ret[p].val.node_ids = [j \in 1..Len(recs) |-> recs[j].id]
                  /\ ret[p].val.coords = [j \in 1..Len(recs) |-> recs[j].coords]

\* a Block 403, a Block 100 and a second Block 403: nodes 5, 1, 2, and
\* node 1 with the coordinates of the second instance
C7_Witness ==
    /\ call.fn = "get_nodes" /\ made.family = 403
    /\ Len(made.written) = 3
    /\ IdText(made.written[1]) = "403" /\ IdText(made.written[2]) = "100"
    /\ IdText(made.written[3]) = "403"
    /\ DictKeys(ret[1].val) = <<5, 1, 2>>
    /\ ret[1].val[2].value = <<F(0, 0), F(0, 0), F(25, 1)>>

-----------------------------------------------------------------------------
(* Tokenizer alone: every line over a small alphabet                       *)

TokAlphabet == {"a", ",", " ", "\t"}

RECURSIVE StringsUpTo(_, _)
StringsUpTo(alphabet, n) ==
    IF n = 0 THEN {""}
    ELSE LET shorter == StringsUpTo(alphabet, n - 1)
         IN  shorter \cup {s \o c : s \in shorter, c \in alphabet}

\* the line with every comma replaced by one space and trailing whitespace
\* removed
RECURSIVE CommasToSpaces(_)
CommasToSpaces(s) ==
    IF s = "" THEN ""
    ELSE (IF Ch(s, 1) = "," THEN " " ELSE Ch(s, 1))
         \o CommasToSpaces(SubSeq(s, 2, Len(s)))

SpaceForm(s) == RStrip(CommasToSpaces(s), Whitespace)

TokInit ==
    /\ line \in StringsUpTo(TokAlphabet, MaxLineLen)
    /\ parts = Unset
    /\ alt = Unset
    /\ ParserIdle
    /\ ConvIdle

\* parse_csv_line(line)
ParseCsvLine ==
    /\ ~parts.set
    /\ parts' = Returned(parse_csv_line(line))
    /\ UNCHANGED <<line, alt, parVars, convVars>>

\* parse_csv_line on the space form of the same line
ParseCsvLineSpaceForm ==
    /\ ~alt.set
    /\ alt' = Returned(parse_csv_line(SpaceForm(line)))
    /\ UNCHANGED <<line, parts, parVars, convVars>>

TokNext == ParseCsvLine \/ ParseCsvLineSpaceForm

SpecTok == TokInit /\ [][TokNext]_vars

-----------------------------------------------------------------------------
(* C4  Tokenizer equivalence                                               *)

\* a comma-separated fragment of the line that keeps whitespace inside it
\* after trimming
InnerWhitespace(s) ==
    LET stripped == Strip(RStrip(s, {","}))
    IN  /\ Contains(stripped, ",")
        /\ \E k \in 1..Len(SplitOn(stripped, ",")) :
              \E c \in Whitespace : Contains(Strip(SplitOn(stripped, ",")[k]), c)

\* C4 as stated: for every line, the fields of the line equal the fields of
\* its space form (commas replaced by single spaces, trailing whitespace
\* removed).
C4_TokenizerEquivalence_Original ==
    (parts.set /\ alt.set) => parts.val = alt.val

\* C4 amended: the fields of a line equal the fields of its space form
\* whenever no comma-separated fragment of the line has whitespace inside it.
C4_TokenizerEquivalence ==
    (parts.set /\ alt.set /\ ~InnerWhitespace(line)) => parts.val = alt.val

\* a comma-separated line with an empty fragment and two fields, tokenized
\* both ways
C4_Witness ==
    /\ parts.set /\ alt.set
    /\ line = "a,,a,"
    /\ parts.val = <<"a", "a">>

-----------------------------------------------------------------------------
(* Title slots: one block whose title line is any short line                *)

MaxTitleUnits == 3

TitleUnits == {"<NULL>", ",", " ", "T"}

TitleSlots == {100, 402, 450, 1051}

\* the lines with line k replaced
WithLine(lines, k, l) == [lines EXCEPT ![k] = l]

\* one block of the slot's ID, holding one record whose title line is t
TitleBlock(slot, t) ==
    CASE slot = 100 -> Block("   100", <<t, "4.41,">>, <<>>)
      [] slot = 402 -> Block("   402", WithLine(PropertyRec(7, 3, "").lines, 2, t), <<>>)
      [] slot = 450 -> Block("   450", WithLine(OutputSetRec(1, "", F(1, 2)).lines, 2, t), <<>>)
      [] slot = 1051 ->
           Block("   1051",
                 WithLine(VectorRec(1, 2, "", 7, <<[id |-> 5, value |-> F(15, 1)]>>).lines, 2, t),
                 <<>>)

TitlesInit ==
    /\ TokIdle
    /\ ConvIdle
    /\ \E slot \in TitleSlots :
         \E t \in StringsUpTo(TitleUnits, MaxTitleUnits) :
            ParserStart(<<WriteFile(<<TitleBlock(slot, t)>>)>>,
                        [slot |-> slot, title_line |-> t])

TitlesNext ==
    \/ \E p \in Parsers : Construct(p)
    \/ GetHeader
    \/ GetProperties
    \/ GetOutputSets
    \/ GetOutputVectors

SpecTitles == TitlesInit /\ [][TitlesNext]_vars

\* the extractor of a title slot and the title in what it returns
SlotMethod(slot) ==
    CASE slot = 100 -> "get_header"
      [] slot = 402 -> "get_properties"
      [] slot = 450 -> "get_output_sets"
      [] slot = 1051 -> "get_output_vectors"

ReturnedTitle(slot, r) ==
    CASE slot = 100 -> r.val.title
      [] slot = 402 -> r.val[1].value.title
      [] slot = 450 -> r.val[1].value.title
      [] slot = 1051 -> r.val[1].title

\* what a title line holds: the line without the comma that ends the
\* record and without surrounding whitespace
FieldContent(t) == Strip(RStrip(Strip(t), {","}))

\* C5 as stated: in each of the four title slots a title line whose field
\* content is <NULL> is returned as the empty string, and any other title
\* is returned unchanged apart from trimming.
C5_NullNormalization ==
    (call.fn = SlotMethod(made.slot)) =>
        /\ ret[1].exc = "none"
        /\ ReturnedTitle(made.slot, ret[1]) =
              (IF FieldContent(made.title_line) = "<NULL>" THEN ""
               ELSE FieldContent(made.title_line))

-----------------------------------------------------------------------------
(* One block and the same lines split into two consecutive blocks           *)

MaxRecords == 2

\* lines that are no record of their block
Junk(lines) == [lines |-> lines, data |-> [id |-> -1], complete |-> FALSE]

\* the records a block of the family is written from
Records(family) ==
    CASE family = 403 ->
           {NodeRec(5, F(0, 0), F(0, 0), F(0, 0)), NodeRec(1, F(1, 0), F(0, 0), F(25, 1)),
            Junk(<<"x,">>)}
      [] family = 402 ->
           {PropertyRec(7, 3, "<NULL>"), PropertyRec(7, 4, "core"), PropertyRec(8, 3, "coil")}
      [] family = 404 ->
           {ElementRec(10, 7, 2, <<1, 2, 5, 0, 0, 0, 0, 0, 0, 0>>, <<0, 0, 0, 0, 0, 0, 0, 0, 0, 0>>),
            ElementRec(11, 7, 2, <<2, 0, 1, 0, 0, 0, 0, 0, 0, 0>>, <<5, 0, 0, 0, 0, 0, 0, 0, 0, 0>>),
            Junk(WithLine(ElementRec(12, 7, 2, <<1, 2, 5, 0, 0, 0, 0, 0, 0, 0>>,
                                     <<0, 0, 0, 0, 0, 0, 0, 0, 0, 0>>).lines,
                          1, "x,124,7,25,2,1,0,0,"))}
      [] family = 601 ->
           {MaterialRec(3), MaterialRec(4), Junk(<<"x,">>), Junk(<<"2147483648,">>)}
      [] family = 450 ->
           {OutputSetRec(1, "STEP1", F(1, 2)), OutputSetRec(2, "<NULL>", F(2, 2))}
      [] family = 1051 ->
           {VectorRec(1, 2, "Bx", 7, <<[id |-> 5, value |-> F(15, 1)]>>),
            VectorRec(2, 2, "Bx", 8, <<[id |-> 5, value |-> F(1, 0)], [id |-> 6, value |-> F(2, 0)]>>)}

IdLine(family) == "   " \o Dec(family)

SplitInit ==
    /\ TokIdle
    /\ ConvIdle
    /\ \E family \in Families :
         \E recs \in SeqsUpTo(Records(family), MaxRecords) :
            \E k \in 0..Len(LinesOf(recs)) :
               LET lines == LinesOf(recs) IN
               ParserStart(<<WriteFile(<<Block(IdLine(family), lines, <<>>)>>),
                             WriteFile(<<Block(IdLine(family), SubSeq(lines, 1, k), <<>>),
                                         Block(IdLine(family), SubSeq(lines, k + 1, Len(lines)),
                                               <<>>)>>)>>,
                           [family |-> family, recs |-> recs, split |-> k])

SplitNext ==
    \/ \E p \in Parsers : Construct(p)
    \/ GetNodes
    \/ GetProperties
    \/ GetElements
    \/ GetMaterials
    \/ GetOutputSets
    \/ GetOutputVectors

SpecSplit == SplitInit /\ [][SplitNext]_vars

ExtractorOf(family) ==
    CASE family = 403 -> "get_nodes"
      [] family = 402 -> "get_properties"
      [] family = 404 -> "get_elements"
      [] family = 601 -> "get_materials"
      [] family = 450 -> "get_output_sets"
      [] family = 1051 -> "get_output_vectors"

\* the split falls between two records, before the first or after the last
AtRecordBoundary ==
    \E n \in 0..Len(made.recs) : made.split = Len(LinesOf(SubSeq(made.recs, 1, n)))

\* every record written is a complete record of its block
AllWellFormed == \A k \in 1..Len(made.recs) : made.recs[k].complete

\* properties[prop_id] for the property records written, the last record
\* of an ID giving its entry
LastWinsProperties(recs) ==
    {[key |-> recs[k].data.id,
      value |-> [material_id |-> LastWritten([j \in 1..Len(recs) |-> recs[j].data],
                                             recs[k].data.id).material_id,
                 title |-> LET t == LastWritten([j \in 1..Len(recs) |-> recs[j].data],
                                                recs[k].data.id).title
                           IN  IF t = "<NULL>" THEN "" ELSE t]] : k \in 1..Len(recs)}

-----------------------------------------------------------------------------
(* Block 1051 alone: one vector holding a Format-2 run, or a few vectors    *)

MaxValues == 4
MaxVectors == 2

\* the entity the runs written start at
RunStart == 5

\* the ways of writing n values on consecutive lines: the number of values
\* on each line
RECURSIVE Compositions(_)
Compositions(n) ==
    IF n = 0 THEN {<<>>}
    ELSE UNION {{<<k>> \o c : c \in Compositions(n - k)} : k \in 1..n}

RECURSIVE SumSeq(_)
SumSeq(q) == IF q = <<>> THEN 0 ELSE Head(q) + SumSeq(Tail(q))

\* the values of a run are 1., 2., 3., ... in the order written
RunValue(k) == F(k, 0)

RECURSIVE ValuesText(_, _)
ValuesText(from, to) ==
    IF from > to THEN "" ELSE Flt(RunValue(from)) \o "," \o ValuesText(from + 1, to)

\* line j of a run written with rows[j] values on line j: the first line
\* leads with start_id and end_id
RunLines(start_id, end_id, rows) ==
    [j \in 1..Len(rows) |->
        (IF j = 1 THEN Dec(start_id) \o "," \o Dec(end_id) \o "," ELSE "")
        \o ValuesText(SumSeq(SubSeq(rows, 1, j - 1)) + 1, SumSeq(SubSeq(rows, 1, j)))]

\* a vector whose results are one run
RunVector(start_id, end_id, rows, terminated) ==
    VectorHeader(1, 2, "Bx", 7) \o RunLines(start_id, end_id, rows)
    \o (IF terminated THEN <<EndMarker>> ELSE <<>>)

\* a vector whose first result line does not parse and is followed by a run
BrokenVector ==
    Junk(VectorHeader(1, 2, "Bx", 7) \o <<"5,x,", "5,8,1.,2.,", EndMarker>>)

VectorPool ==
    {VectorRec(1, 2, "Bx", 7, <<[id |-> 5, value |-> F(15, 1)]>>),
     VectorRec(2, 2, "Bx", 8, <<[id |-> 5, value |-> F(1, 0)], [id |-> 6, value |-> F(2, 0)]>>),
     VectorRec(1, 3, "By", 7, <<[id |-> 6, value |-> F(25, 1)]>>),
     BrokenVector}

VectorsInit ==
    /\ TokIdle
    /\ ConvIdle
    /\ \/ \E end_id \in (RunStart - 1)..(RunStart + MaxValues - 1), n \in 1..MaxValues,
            terminated \in BOOLEAN :
            \E rows \in Compositions(n) :
               \* every line after the first is reached with values missing
               /\ \A j \in 2..Len(rows) :
                     SumSeq(SubSeq(rows, 1, j - 1)) < end_id - RunStart + 1
               /\ ParserStart(<<WriteFile(<<Block("   1051",
                                                 RunVector(RunStart, end_id, rows, terminated),
                                                 <<>>)>>)>>,
                              [kind |-> "run", start_id |-> RunStart, end_id |-> end_id,
                               rows |-> rows, terminated |-> terminated])
       \/ \E recs \in SeqsUpTo(VectorPool, MaxVectors) :
            ParserStart(<<WriteFile(<<Block("   1051", LinesOf(recs), <<>>)>>)>>,
                        [kind |-> "vectors", recs |-> recs])

VectorsNext ==
    \/ \E p \in Parsers : Construct(p)
    \/ GetOutputVectors
    \/ GetOutputVectorsArrays

SpecVectors == VectorsInit /\ [][VectorsNext]_vars

Min(a, b) == IF a < b THEN a ELSE b

\* the number of values the run expects and the number it assigns
Expected == made.end_id - made.start_id + 1
Assigned == IF Expected <= 0 THEN 0 ELSE Min(SumSeq(made.rows), Expected)

\* C6: a result line with more than two fields (start_id, end_id,
\* values...) has the following lines read as continuation values until
\* end_id - start_id + 1 values are collected or the terminator is seen,
\* and gives exactly start_id + k -> value[k] for k in
\* [0, min(collected, expected)), and no other entity.
C6_RunExpansion ==
    (made.kind = "run" /\ call.fn \in {"get_output_vectors", "get_output_vectors_arrays"}) =>
        /\ ret[1].exc = "none"
        /\ call.fn = "get_output_vectors" =>
              /\ Len(ret[1].val) = 1
              /\ ret[1].val[1].results =
                    [k \in 1..Assigned |->
                        [key |-> made.start_id + (k - 1), value |-> RunValue(k)]]
        /\ (call.fn = "get_output_vectors_arrays" /\ ret[1].val.found) =>
              /\ ret[1].val.entity_ids = [k \in 1..Assigned |-> made.start_id + (k - 1)]
              /\ ret[1].val.values = [k \in 1..Assigned |-> RunValue(k)]

\* start 5, end 8, the values 1., 2. on the run line and 3., 4. on the
\* next, then the terminator: exactly 5 -> 1., 6 -> 2., 7 -> 3., 8 -> 4.
C6_Witness ==
    /\ made.kind = "run" /\ call.fn = "get_output_vectors"
    /\ made.end_id = 8 /\ made.rows = <<2, 2>> /\ made.terminated
    /\ files[1][10] = "5,8,1.,2.," /\ files[1][11] = "3.,4.,"
    /\ ret[1].val[1].results =
          <<[key |-> 5, value |-> F(1, 0)], [key |-> 6, value |-> F(2, 0)],
            [key |-> 7, value |-> F(3, 0)], [key |-> 8, value |-> F(4, 0)]>>

\* the records of get_output_vectors that pass the filters of the call
Matching(recs) ==
    {k \in 1..Len(recs) :
        /\ call.args[1] >= 0 => recs[k].set_id = call.args[1]
        /\ call.args[2] >= 0 => recs[k].vec_id = call.args[2]}

RECURSIVE PairsOf(_, _)
PairsOf(entity_ids, values) ==
    IF entity_ids = <<>> THEN <<>>
    ELSE <<[id |-> Head(entity_ids), value |-> Head(values)]>>
         \o PairsOf(Tail(entity_ids), Tail(values))

\* C8 as stated: get_output_vectors_arrays returns the entity IDs, values,
\* set_id, vec_id and ent_type of the first record of get_output_vectors
\* that passes the filters, and (None, None, -1, -1, -1) exactly when no
\* record passes.
C8_FirstMatchingVector ==
    (call.fn = "get_output_vectors_arrays") =>
        LET all == get_output_vectors(blocks[1])
            recs == all.val
        IN  /\ ret[1].exc = "none" /\ all.exc = "none"
            /\ IF Matching(recs) = {} THEN ret[1].val = NoVector
               ELSE LET first == recs[SetMin(Matching(recs))] IN
                    /\ ret[1].val.found
                    /\ ret[1].val.set_id = first.set_id
                    /\ ret[1].val.vec_id = first.vec_id
                    /\ ret[1].val.ent_type =
                          (IF first.ent_type = <<>> THEN -1 ELSE first.ent_type[1])
                    /\ DictItems(DictOf(PairsOf(ret[1].val.entity_ids, ret[1].val.values), <<>>))
                          = DictItems(first.results)

-----------------------------------------------------------------------------
(* FemapConverter._build_mesh: the mesh file is parsed, the points are      *)
(* emitted in ascending order of node ID and one cell per accepted element  *)

MaxElements == 3

\* sorted(S)
RECURSIVE Ascending(_)
Ascending(S) == IF S = {} THEN <<>> ELSE <<SetMin(S)>> \o Ascending(S \ {SetMin(S)})

\* d[k] for a key the dict holds
DictGet(d, k) == (CHOOSE e \in DictItems(d) : e.key = k).value

\* the topology table: the number of nodes the cell of a topology code takes
FEMAP_TO_VTK ==
    [t \in {9, 0, 2, 3, 4, 5, 6, 10, 7, 11, 8, 12} |->
        CASE t = 9 -> 1 [] t = 0 -> 2 [] t = 2 -> 3 [] t = 3 -> 6
          [] t = 4 -> 4 [] t = 5 -> 8 [] t = 6 -> 4 [] t = 10 -> 10
          [] t = 7 -> 6 [] t = 11 -> 15 [] t = 8 -> 8 [] t = 12 -> 20]

\* the 2D reduction: hex -> quad, quadratic hex -> quadratic quad,
\* wedge -> triangle, quadratic wedge -> quadratic triangle
force_2d_topology(t) ==
    CASE t = 8 -> 4 [] t = 12 -> 5 [] t = 7 -> 2 [] t = 11 -> 3 [] OTHER -> t

\* a slip: the points emitted in the order in which the nodes were read
NodeOrderAsRead(nodes) == DictKeys(nodes)

\* the order in which the points are emitted: ascending node ID
NodeOrder(nodes) == Ascending({nodes[j].key : j \in 1..Len(nodes)})

\* femap_to_vtk_id: node ID -> point index, the index counted from 0
NodeIdMap(order) == [k \in 1..Len(order) |-> [key |-> order[k], value |-> k - 1]]

NoCells ==
    [cells |-> <<>>, elements_map |-> <<>>, discarded |-> <<>>,
     ElementID |-> <<>>, PropertyID |-> <<>>, MaterialID |-> <<>>, TopologyID |-> <<>>]

\* a slip: the element dropped without a trace
LogDiscardedNot(acc, elem_id) == acc

\* the element is skipped and its ID recorded in the discarded log
LogDiscarded(acc, elem_id) == [acc EXCEPT !.discarded = Append(@, elem_id)]

\* the cell of an accepted element: the node prefix through the node map;
\* the cell arrays keep the topology code of the file
EmitCell(acc, e, need, node_map, properties) ==
    [acc EXCEPT
        !.cells = Append(@, [j \in 1..need |-> DictGet(node_map, e.nodes[j])]),
        !.elements_map = DictSet(@, e.id, Len(acc.cells)),
        !.ElementID = Append(@, e.id),
        !.PropertyID = Append(@, e.prop_id),
        !.MaterialID = Append(@, IF DictHas(properties, e.prop_id)
                                 THEN DictGet(properties, e.prop_id).material_id ELSE 0),
        !.TopologyID = Append(@, e.topology)]

\* the loop over the elements from element k on
RECURSIVE CellsFrom(_, _, _, _, _, _)
CellsFrom(elements, k, node_map, properties, force_2d, acc) ==
    IF k > Len(elements) THEN acc
    ELSE LET e == elements[k]
             topo == IF force_2d THEN force_2d_topology(e.topology) ELSE e.topology
             known == topo \in DOMAIN FEMAP_TO_VTK
             need == IF known THEN FEMAP_TO_VTK[topo] ELSE 0
             ok == /\ known
                   /\ Len(e.nodes) >= need
                   /\ \A j \in 1..need : DictHas(node_map, e.nodes[j])
         IN  CellsFrom(elements, k + 1, node_map, properties, force_2d,
                       IF ok THEN EmitCell(acc, e, need, node_map, properties)
                       ELSE LogDiscarded(acc, e.id))

\* the values of a sequence, each once, in the order of first appearance
RECURSIVE UniqueInOrder(_)
UniqueInOrder(q) ==
    IF q = <<>> THEN <<>>
    ELSE LET rest == UniqueInOrder(SubSeq(q, 1, Len(q) - 1))
             last == q[Len(q)]
         IN  IF \E j \in 1..Len(rest) : rest[j] = last THEN rest ELSE Append(rest, last)

\* the mesh built from the nodes and elements, and the maps kept with it
MeshOf(nodes, elements, properties, force_2d) ==
    LET order == NodeOrder(nodes)
        node_map == NodeIdMap(order)
        points == [k \in 1..Len(order) |-> DictGet(nodes, order[k])]
        c == CellsFrom(elements, 1, node_map, properties, force_2d, NoCells)
    IN  [points |-> points, init_points |-> points, femap_to_vtk_id |-> node_map,
         cells |-> c.cells, elements_map |-> c.elements_map, discarded |-> c.discarded,
         ElementID |-> c.ElementID, PropertyID |-> c.PropertyID,
         MaterialID |-> c.MaterialID, TopologyID |-> c.TopologyID,
         unique_props |-> UniqueInOrder(c.PropertyID)]

\* _vtu_to_vtm: one sub-block per unique property ID, named by the ID, with
\* the cells (by index) whose PropertyID is that ID; the points are shared
_vtu_to_vtm(m) ==
    [k \in 1..Len(m.unique_props) |->
        [name |-> m.unique_props[k],
         cells |-> {c \in 1..Len(m.cells) : m.PropertyID[c] = m.unique_props[k]}]]

\* a .vtm file: its path, the step it is the file of (0 for the initial
\* mesh), the points and the sub-blocks written
VtmFile(path, step, points, m) ==
    [path |-> path, step |-> step, points |-> points, blocks |-> _vtu_to_vtm(m)]

\* _build_mesh on the blocks of the mesh file
_build_mesh(blks, force_2d) ==
    LET nodes == get_nodes(blks)
        elements == get_elements(blks)
        properties == get_properties(blks)
        exc == FirstExc(<<nodes.exc, elements.exc, properties.exc>>)
    IN  IF exc # "none" THEN Raise(exc)
        ELSE Return(MeshOf(nodes.val, elements.val, properties.val, force_2d))

-----------------------------------------------------------------------------
(* FemapConverter.run(): init_pvd, then time_stepping with one worker per   *)
(* step.  The state at the start is the one _build_mesh and                 *)
(* parse_data_files leave.                                                  *)

MaxSteps == 3

StepIds == 1..MaxSteps

\* the timestep values a set may carry
StepValues == {F(1, 2), F(2, 2)}

\* the titles a set may carry: one that names the step, and one that holds
\* a character a file name cannot hold
StepTitle(id, v) ==
    IF v = F(1, 2) THEN "STEP" \o Dec(id) ELSE IF id % 2 = 1 THEN "T:2" ELSE "T?2"

\* self.sets: time step ID -> {value, title}, one entry per ID, in the
\* order in which the IDs were inserted
SetTables ==
    {t \in SeqsUpTo({[id |-> id, value |-> v, title |-> StepTitle(id, v)] :
                        id \in StepIds, v \in StepValues}, MaxSteps) :
        \A j, k \in 1..Len(t) : j # k => t[j].id # t[k].id}

TableIds(t) == {t[k].id : k \in 1..Len(t)}

TableEntry(t, id) == CHOOSE e \in {t[k] : k \in 1..Len(t)} : e.id = id

\* the characters replaced in a title that becomes a file name
Forbidden == {"<", ">", ":", "\"", "/", "\\", "|", "?", "*"}

RECURSIVE sanitize(_)
sanitize(title) ==
    IF title = "" THEN ""
    ELSE (IF Ch(title, 1) \in Forbidden THEN "_" ELSE Ch(title, 1))
         \o sanitize(SubSeq(title, 2, Len(title)))

\* <sanitized_title>.vtm, relative to <output_dir>/<output_name>/
vtm_path(title) == sanitize(title) \o ".vtm"

\* <DataSet timestep="..." part="0" file="<output_name>/<title>.vtm"/>, with
\* the step it is the entry of
DataSet(e) == [step |-> e.id, timestep |-> e.value, part |-> 0, file |-> vtm_path(e.title)]

\* a slip: the entries in the order of the set table
init_pvd_table_order(t) == [k \in 1..Len(t) |-> DataSet(t[k])]

\* the collection init_pvd generates: one DataSet per step of the set
\* table, in ascending step order
init_pvd(t) ==
    [k \in 1..Len(t) |-> DataSet(TableEntry(t, Ascending(TableIds(t))[k]))]

\* a + b for two decimal fractions
RECURSIVE Pow10(_)
Pow10(d) == IF d = 0 THEN 1 ELSE 10 * Pow10(d - 1)

RECURSIVE FNorm(_, _)
FNorm(m, d) == IF d > 0 /\ m % 10 = 0 THEN FNorm(m \div 10, d - 1) ELSE [m |-> m, d |-> d]

FAdd(a, b) ==
    LET d == IF a.d > b.d THEN a.d ELSE b.d
    IN  FNorm(a.m * Pow10(d - a.d) + b.m * Pow10(d - b.d), d)

\* a slip: the worker handed the mesh itself, whose point buffer it then
\* moves in place
MeshAlias(m) == [own |-> FALSE, points |-> m.points]

\* the mesh copy a step worker makes: it owns its point buffer
MeshCopy(m) == [own |-> TRUE, points |-> m.points]

\* the displacement records of step: the vectors of the displacement
\* channel with that set ID and ent_type 7
DisplacementOf(vecs, step) ==
    IF ~DictHas(vecs, "displacement") THEN <<>>
    ELSE SelectSeq(DictGet(vecs, "displacement"),
                   LAMBDA v : v.set_id = step /\ v.ent_type = 7)

\* _process_displacement_field: the point of every node the record of the
\* step names is offset by its displacement
_process_displacement_field(points, node_map, vecs, step) ==
    LET recs == DisplacementOf(vecs, step) IN
    IF recs = <<>> THEN points
    ELSE [k \in 1..Len(points) |->
            LET node == node_map[k].key IN
            IF DictHas(recs[1].results, node)
            THEN [c \in 1..3 |-> FAdd(points[k][c], DictGet(recs[1].results, node)[c])]
            ELSE points[k]]

\* the mesh of the conversions of this specification: two nodes, one line
ConvNodes ==
    <<[key |-> 1, value |-> <<F(0, 0), F(0, 0), F(0, 0)>>],
      [key |-> 2, value |-> <<F(1, 0), F(0, 0), F(5, 1)>>]>>

ConvElements == <<[id |-> 10, prop_id |-> 7, topology |-> 0, nodes |-> <<1, 2>>]>>

\* a displacement channel with one nodal record per step of the table
DisplacementChannel(t) ==
    <<[key |-> "displacement",
       value |-> [k \in 1..Len(t) |->
                    [set_id |-> t[k].id, ent_type |-> 7, vec_id |-> 1, title |-> "disp",
                     results |-> <<[key |-> 1, value |-> <<F(t[k].id, 0), F(0, 0), F(0, 0)>>],
                                   [key |-> 2, value |-> <<F(0, 0), F(t[k].id, 1), F(0, 0)>>]>>]]]>>

\* a converter whose mesh is built and whose set table is filled; the
\* collection is absent, or is there from an earlier run() of the same
\* converter
ConvInit ==
    /\ TokIdle
    /\ ParserIdle
    /\ sets \in SetTables
    /\ pvd \in {Unset, Returned(init_pvd(sets))}
    /\ pc = "init_pvd"
    /\ running = {}
    /\ written = <<>>
    /\ failed = {}
    /\ mesh = Returned(MeshOf(ConvNodes, ConvElements, <<>>, FALSE))
    /\ vectors = DisplacementChannel(sets)
    /\ vtm = {}

\* stage 3: skipped if already initialized, else the collection is written
InitPvd ==
    /\ pc = "init_pvd"
    /\ pvd' = IF pvd.set THEN pvd ELSE Returned(init_pvd(sets))
    /\ pc' = "time_stepping"
    /\ running' = TableIds(sets)
    /\ UNCHANGED <<sets, written, failed, mesh, vectors, vtm, tokVars, parVars>>

\* what a step worker does before it writes: the mesh copy, and the
\* displacement of its step applied to the points it was handed.  A buffer
\* the worker does not own is the buffer of self.mesh.
Displace(step) ==
    LET copy == MeshCopy(mesh.val)
        moved == _process_displacement_field(copy.points, mesh.val.femap_to_vtk_id,
                                             vectors, step)
    IN  [points |-> moved,
         mesh |-> IF copy.own THEN mesh ELSE Returned([mesh.val EXCEPT !.points = moved])]

\* _process_time_step(step, vtm_path) writes its file and its worker ends.
\* Everything the worker changes before the write is its own, so the worker
\* is one step here.
ProcessTimeStep(step) ==
    /\ pc = "time_stepping"
    /\ step \in running
    /\ LET path == vtm_path(TableEntry(sets, step).title)
           w == Displace(step)
       IN  /\ vtm' = {f \in vtm : f.path # path}
                     \cup {VtmFile(path, step, w.points, mesh.val)}
           /\ mesh' = w.mesh
    /\ running' = running \ {step}
    /\ written' = Append(written, step)
    /\ UNCHANGED <<sets, pvd, pc, failed, vectors, tokVars, parVars>>

\* the output of the step cannot be created: the step is reported
WriteFailed(step) ==
    /\ pc = "time_stepping"
    /\ step \in running
    /\ mesh' = Displace(step).mesh
    /\ running' = running \ {step}
    /\ failed' = failed \cup {step}
    /\ UNCHANGED <<sets, pvd, pc, written, vectors, vtm, tokVars, parVars>>

\* time_stepping waits for all workers, and run() returns
Join ==
    /\ pc = "time_stepping"
    /\ running = {}
    /\ pc' = "done"
    /\ UNCHANGED <<sets, pvd, running, written, failed, mesh, vectors, vtm, tokVars, parVars>>

ConvNext ==
    \/ InitPvd
    \/ \E step \in StepIds : ProcessTimeStep(step)
    \/ \E step \in StepIds : WriteFailed(step)
    \/ Join

SpecConv == ConvInit /\ [][ConvNext]_vars

\* the steps the collection lists, in the order listed
ListedSteps == [k \in 1..Len(pvd.val) |-> pvd.val[k].step]

C10_WriteFailedRecovery ==
    (pc = "done") =>
        /\ TableIds(sets) \ failed = {written[k] : k \in 1..Len(written)}
        /\ {ListedSteps[k] : k \in 1..Len(pvd.val)} = {written[k] : k \in 1..Len(written)}

\* C11 as stated: no two step workers that run at the same time write to
\* the same path: the map from a step of the set table to
\* <output_dir>/<output_name>/<sanitized_title>.vtm is injective.
C11_DistinctOutputPaths ==
    (pc = "time_stepping") =>
        \A s, t \in running :
            s # t => vtm_path(TableEntry(sets, s).title) # vtm_path(TableEntry(sets, t).title)

\* the displacement the vectors table holds for a node at a step
DisplacementAt(step, node) ==
    LET recs == DisplacementOf(vectors, step) IN
    IF recs # <<>> /\ DictHas(recs[1].results, node)
    THEN DictGet(recs[1].results, node)
    ELSE <<F(0, 0), F(0, 0), F(0, 0)>>

\* the node whose point has index k - 1
NodeAt(k) == (CHOOSE e \in DictItems(mesh.val.femap_to_vtk_id) : e.value = k - 1).key

\* C13: every file written holds, for every point, the initial coordinates
\* plus the displacement of the step of the file and of no other step, and
\* no step worker changes the shared mesh or the vectors table, whatever the
\* order in which the workers run.
C13_StepIsolation ==
    /\ [](pc \in {"time_stepping", "done"} =>
            /\ mesh.val.points = mesh.val.init_points
            /\ \A f \in vtm :
                  /\ Len(f.points) = Len(mesh.val.init_points)
                  /\ \A k \in 1..Len(f.points) : \A c \in 1..3 :
                        f.points[k][c] = FAdd(mesh.val.init_points[k][c],
                                              DisplacementAt(f.step, NodeAt(k))[c]))
    /\ [][pc = "time_stepping" => (mesh' = mesh /\ vectors' = vectors)]_vars

\* the workers of steps 2 and 1 wrote their files in that order, and the
\* two files hold different points, neither the initial ones
C13_Witness ==
    /\ pc = "done"
    /\ written = <<2, 1>>
    /\ \E f, g \in vtm :
          /\ f.step = 1
          /\ g.step = 2
          /\ f.points # g.points
          /\ f.points # mesh.val.init_points
          /\ g.points # mesh.val.init_points

-----------------------------------------------------------------------------
(* FemapConverter.parse_data_files: one worker per configured result file,  *)
(* then the set table taken from the results the workers returned           *)

MaxChannels == 3

\* the file map, in its order
ChannelNames == <<"displacement", "magnetic", "current", "force", "force_J_B", "heat">>

SetsA == BlockOf("   450", <<OutputSetRec(1, "STEP1", F(1, 2))>>)

SetsB == BlockOf("   450", <<OutputSetRec(2, "STEP2", F(2, 2)), OutputSetRec(1, "<NULL>", F(3, 2))>>)

VectorsA == BlockOf("   1051", <<VectorRec(1, 2, "Bx", 7, <<[id |-> 5, value |-> F(15, 1)]>>)>>)

\* the result files tried: one without output sets, two with different
\* sets, and one whose last block ID does not fit a C int
ChannelPool ==
    {<<Header100>>,
     <<Header100, SetsA, VectorsA>>,
     <<SetsB, VectorsA>>,
     <<SetsA, Block("   99999999999", <<"1,">>, <<>>)>>}

\* what a worker returns when its file could not be parsed
NoResults == [sets |-> <<>>, vectors |-> <<>>]

\* the converter after _build_mesh, with one result file per channel
ParseInit ==
    /\ TokIdle
    /\ \E n \in 1..MaxChannels : \E fs \in [1..n -> ChannelPool] :
          ParserStart([ch \in 1..n |-> WriteFile(fs[ch])],
                      [family |-> "channels", written |-> fs])
    /\ sets = <<>>
    /\ pvd = Unset
    /\ pc = "parse_data_files"
    /\ running = {}
    /\ written = <<>>
    /\ failed = {}
    /\ mesh = Returned(MeshOf(ConvNodes, ConvElements, <<>>, FALSE))
    /\ vectors = <<>>
    /\ vtm = {}

\* what a worker returns from the results of the two extractors: empty
\* results when one of them raised
Collected(blks, s, v) ==
    IF s.exc # "none" \/ v.exc # "none"
    THEN [blocks |-> blks, ok |-> FALSE, val |-> NoResults]
    ELSE [blocks |-> blks, ok |-> TRUE, val |-> [sets |-> s.val, vectors |-> v.val]]

\* FEMAPParser(lines) of a worker: the blocks, and whether the constructor
\* raised
Parsed(r, bld) == [blocks |-> r.blocks, raised |-> r.exc # "none" /\ bld = "propagates"]

\* parse_data_file on the lines of one file: FEMAPParser on the file, the
\* output sets and the output vectors.  A worker that fails returns empty
\* results and the failure is recorded.
parse_data_file(parser) ==
    IF parser.raised
    THEN [blocks |-> parser.blocks, ok |-> FALSE, val |-> NoResults]
    ELSE Collected(parser.blocks, get_output_sets(parser.blocks),
                   get_output_vectors(parser.blocks))

\* the worker of one channel has returned w; it touches nothing but its
\* own parser and its own result
WorkerDone(ch, w) ==
    /\ blocks' = [blocks EXCEPT ![ch] = w.blocks]
    /\ status' = [status EXCEPT ![ch] = IF w.ok THEN "ok" ELSE "raised"]
    /\ ret' = [ret EXCEPT ![ch] = Return(w.val)]

ParseDataFile(ch) ==
    /\ pc = "parse_data_files"
    /\ status[ch] = "new"
    /\ WorkerDone(ch, parse_data_file(Parsed(_parse(files[ch]), build)))
    /\ UNCHANGED <<files, made, build, call, cursor, tokVars, convVars>>

\* a slip: the sets of every channel merged into one table
RECURSIVE merge_sets_all(_)
merge_sets_all(rets) ==
    IF rets = <<>> THEN <<>>
    ELSE LET before == merge_sets_all(SubSeq(rets, 1, Len(rets) - 1))
             last == rets[Len(rets)].val.sets
             F_[k \in 0..Len(last)] ==
                 IF k = 0 THEN before ELSE DictSet(F_[k - 1], last[k].key, last[k].value)
         IN  F_[Len(last)]

\* the sets of the first channel, in the order of the file map, whose sets
\* are not empty
merge_sets(rets) ==
    LET with == {ch \in 1..Len(rets) : rets[ch].val.sets # <<>>}
    IN  IF with = {} THEN <<>> ELSE rets[SetMin(with)].val.sets

\* the set table of the converter: step ID -> {value, title}
SetsTable(d) ==
    [k \in 1..Len(d) |-> [id |-> d[k].key, value |-> d[k].value.value, title |-> d[k].value.title]]

\* all workers have returned: self.sets and self.vectors are filled from
\* their results
JoinParse ==
    /\ pc = "parse_data_files"
    /\ \A ch \in Parsers : status[ch] # "new"
    /\ sets' = SetsTable(merge_sets(ret))
    /\ vectors' = [ch \in 1..Len(ret) |-> [key |-> ChannelNames[ch], value |-> ret[ch].val.vectors]]
    /\ pc' = "init_pvd"
    /\ UNCHANGED <<pvd, running, written, failed, mesh, vtm, tokVars, parVars>>

ParseNext ==
    \/ \E ch \in Parsers : ParseDataFile(ch)
    \/ JoinParse

SpecParse == ParseInit /\ [][ParseNext]_vars

\* what the file of a channel gives when it is parsed on its own
OwnSets(ch) ==
    LET r == _parse(files[ch])
        s == get_output_sets(r.blocks)
        v == get_output_vectors(r.blocks)
    IN  IF (r.exc # "none" /\ build = "propagates") \/ s.exc # "none" \/ v.exc # "none"
        THEN <<>> ELSE s.val

\* C12: in whatever order the channel workers run, after the join the set
\* table is the output sets of the first channel (in the order of the file
\* map) whose sets are not empty, and holds no entry of another channel;
\* each worker's result is what its own file gives.
C12_CanonicalSetTable ==
    /\ \A ch \in Parsers : status[ch] # "new" => ret[ch].val.sets = OwnSets(ch)
    /\ (pc = "init_pvd") =>
          LET with == {ch \in Parsers : OwnSets(ch) # <<>>} IN
          IF with = {} THEN sets = <<>>
          ELSE /\ sets = SetsTable(OwnSets(SetMin(with)))
               /\ \A k \in 1..Len(sets) :
                     \E e \in DictItems(OwnSets(SetMin(with))) :
                         /\ e.key = sets[k].id
                         /\ e.value.value = sets[k].value
                         /\ e.value.title = sets[k].title

\* three channels: the first without sets, the second and the third with
\* different sets; the table is that of the second
C12_Witness ==
    /\ pc = "init_pvd"
    /\ Len(ret) = 3
    /\ ret[1].val.sets = <<>>
    /\ ret[2].val.sets # <<>>
    /\ ret[3].val.sets # <<>>
    /\ ret[2].val.sets # ret[3].val.sets
    /\ sets = SetsTable(ret[2].val.sets)

-----------------------------------------------------------------------------
(* FemapConverter._build_mesh on a mesh file: a Block 100, a Block 403, a   *)
(* Block 402 and a Block 404 of at most MaxElements element records         *)

Origin == F(0, 0)

MeshNodeBlocks ==
    {BlockOf("   403", <<NodeRec(5, F(0, 0), F(1, 0), Origin),
                        NodeRec(1, Origin, Origin, Origin),
                        NodeRec(2, F(1, 0), Origin, Origin)>>),
     BlockOf("   403", <<NodeRec(1, Origin, Origin, Origin),
                        NodeRec(2, F(1, 0), Origin, Origin)>>)}

NoNodes == <<0, 0, 0, 0, 0, 0, 0, 0, 0, 0>>

\* a triangle, a line with the ID of the triangle, an element of a topology
\* the table does not hold, a quadrilateral with three nodes, and a wedge
\* three of whose nodes are in no node block
MeshElementRecs ==
    {ElementRec(10, 7, 2, <<1, 2, 5, 0, 0, 0, 0, 0, 0, 0>>, NoNodes),
     ElementRec(10, 8, 0, <<1, 2, 0, 0, 0, 0, 0, 0, 0, 0>>, NoNodes),
     ElementRec(12, 7, 13, <<1, 2, 0, 0, 0, 0, 0, 0, 0, 0>>, NoNodes),
     ElementRec(13, 7, 4, <<1, 2, 5, 0, 0, 0, 0, 0, 0, 0>>, NoNodes),
     ElementRec(14, 9, 7, <<1, 2, 5, 6, 7, 9, 0, 0, 0, 0>>, NoNodes)}

MeshProperties == BlockOf("   402", <<PropertyRec(7, 3, "core")>>)

\* a converter constructed on a mesh file, before run()
MeshInit ==
    /\ TokIdle
    /\ \E nb \in MeshNodeBlocks : \E es \in SeqsUpTo(MeshElementRecs, MaxElements) :
          ParserStart(<<WriteFile(<<Header100, nb, MeshProperties, BlockOf("   404", es)>>)>>,
                      [family |-> "mesh", nodes |-> nb.recs,
                       elements |-> [k \in 1..Len(es) |-> es[k].data]])
    /\ sets = <<>>
    /\ pvd = Unset
    /\ pc = "build_mesh"
    /\ running = {}
    /\ written = <<>>
    /\ failed = {}
    /\ mesh = Unset
    /\ vectors = <<>>
    /\ vtm = {}

\* stage 1: FEMAPParser on the mesh file, the mesh built from its nodes and
\* elements, and initial_mesh.vtm written grouped by PropertyID
BuildMesh ==
    /\ pc = "build_mesh"
    /\ \E force_2d \in BOOLEAN :
          LET r == _parse(files[1])
              raised == r.exc # "none" /\ build = "propagates"
              m == _build_mesh(r.blocks, force_2d)
          IN  /\ blocks' = [blocks EXCEPT ![1] = r.blocks]
              /\ status' = [status EXCEPT ![1] = IF raised THEN "raised" ELSE "ok"]
              /\ call' = [fn |-> "_build_mesh", args |-> <<force_2d>>]
              /\ IF raised \/ m.exc # "none"
                 THEN /\ mesh' = Unset
                      /\ vtm' = vtm
                      /\ pc' = "failed"
                 ELSE /\ mesh' = Returned(m.val)
                      /\ vtm' = {VtmFile("initial_mesh.vtm", 0, m.val.points, m.val)}
                      /\ pc' = "parse_data_files"
    /\ UNCHANGED <<files, made, build, ret, cursor, sets, pvd, running, written, failed,
                   vectors, tokVars>>

MeshNext == BuildMesh

SpecMesh == MeshInit /\ [][MeshNext]_vars

MeshBuilt == pc = "parse_data_files" /\ mesh.set

\* the keys of a map are S, each once, and its values are 0 .. |S| - 1
IsBijectionOnto(d, S) ==
    /\ Len(d) = Cardinality(S)
    /\ {d[j].key : j \in 1..Len(d)} = S
    /\ {d[j].value : j \in 1..Len(d)} = 0..(Cardinality(S) - 1)

WrittenNodeIds == {made.nodes[k].id : k \in 1..Len(made.nodes)}

EmittedIds == {mesh.val.ElementID[c] : c \in 1..Len(mesh.val.cells)}

\* the node map: a bijection from the node IDs of the file onto the point
\* indices, increasing in the node ID
NodeMapBijection ==
    /\ IsBijectionOnto(mesh.val.femap_to_vtk_id, WrittenNodeIds)
    /\ Len(mesh.val.points) = Cardinality(WrittenNodeIds)
    /\ \A a, b \in DictItems(mesh.val.femap_to_vtk_id) : a.key < b.key => a.value < b.value

MayBeDiscarded(e, force_2d) ==
    LET topo == IF force_2d THEN force_2d_topology(e.topology) ELSE e.topology
        nodes == SelectSeq(e.conn, LAMBDA n : n # 0)
    IN  \/ topo \notin DOMAIN FEMAP_TO_VTK
        \/ Len(nodes) < FEMAP_TO_VTK[topo]
        \/ \E j \in 1..Len(nodes) : nodes[j] \notin WrittenNodeIds

\* the sub-blocks of the file written for the built mesh
WrittenSubBlocks == (CHOOSE f \in vtm : f.path = "initial_mesh.vtm").blocks

\* C15: the number of cells is the number of elements of the file less the
\* number of discarded elements, every discarded element has an unknown
\* topology, too few nodes or an absent node, every node index of a cell is
\* a point index, and the cells of the sub-blocks per property add up to
\* the number of cells.
C15_CellCount ==
    MeshBuilt =>
        /\ Len(mesh.val.cells) = Len(made.elements) - Len(mesh.val.discarded)
        /\ \A d \in 1..Len(mesh.val.discarded) :
              \E k \in 1..Len(made.elements) :
                  /\ made.elements[k].id = mesh.val.discarded[d]
                  /\ MayBeDiscarded(made.elements[k], call.args[1])
        /\ \A c \in 1..Len(mesh.val.cells) :
              /\ Len(mesh.val.cells[c]) >= 1
              /\ \A j \in 1..Len(mesh.val.cells[c]) :
                    mesh.val.cells[c][j] \in 0..(Len(mesh.val.points) - 1)
        /\ SumSeq([k \in 1..Len(WrittenSubBlocks) |-> Cardinality(WrittenSubBlocks[k].cells)])
              = Len(mesh.val.cells)
        /\ Len(mesh.val.ElementID) = Len(mesh.val.cells)
        /\ Len(mesh.val.PropertyID) = Len(mesh.val.cells)

\* three elements, one of them discarded, the cells of the two others in
\* two sub-blocks
C15_Witness ==
    /\ MeshBuilt
    /\ Len(made.elements) = 3
    /\ Len(mesh.val.discarded) = 1
    /\ Len(mesh.val.cells) = 2
    /\ Len(WrittenSubBlocks) = 2

-----------------------------------------------------------------------------
(* The block scanner on any file of at most MaxScanLines lines, and on the  *)
(* same file without its first delimiter line, and without that line and    *)
(* the line after it                                                        *)

MaxScanLines == 4

\* the lines of the files: the delimiter, a bare -1, two ID lines, an empty
\* line, and an integer that is too large for a C int
ScanLines == {BLOCK_DELIMITER, "-1", " 100", "403", "", "99999999999"}

\* the position of the first delimiter line, 0 if there is none
FirstDelimiter(lines) ==
    LET at == {j \in 1..Len(lines) : lines[j] = BLOCK_DELIMITER}
    IN  IF at = {} THEN 0 ELSE SetMin(at)

\* the lines without the line at position p
DropAt(lines, p) ==
    IF p \in 1..Len(lines)
    THEN SubSeq(lines, 1, p - 1) \o SubSeq(lines, p + 1, Len(lines))
    ELSE lines

ScanInit ==
    /\ TokIdle
    /\ ConvIdle
    /\ \E lines \in SeqsUpTo(ScanLines, MaxScanLines) :
          LET p == FirstDelimiter(lines) IN
          ParserStart(<<lines, DropAt(lines, p), DropAt(DropAt(lines, p), p)>>,
                      [family |-> "scan", lines |-> lines, at |-> p])

ScanNext == \E p \in Parsers : Construct(p)

SpecScan == ScanInit /\ [][ScanNext]_vars

AllConstructed == \A p \in Parsers : status[p] # "new"

\* the line after position p as the scanner reads an ID line
IdLineAfter(lines, p) == Strip(lines[p + 1])

\* the delimiter lines followed by a line that parses as an integer; the
\* pair "delimiter, -1" is the one of the doubled-delimiter guard
Candidates(lines) ==
    {p \in 1..(Len(lines) - 1) :
        /\ lines[p] = BLOCK_DELIMITER
        /\ IsIntLit(IdLineAfter(lines, p))
        /\ IdLineAfter(lines, p) # "-1"}

\* the next delimiter line after the ID line of the block opened at p, or
\* the position after the last line
CloseOf(lines, p) ==
    LET ends == {j \in (p + 2)..Len(lines) : lines[j] = BLOCK_DELIMITER}
    IN  IF ends = {} THEN Len(lines) + 1 ELSE SetMin(ends)

\* the candidates that are not the closing delimiter of an earlier block
Openers(lines) ==
    CHOOSE O \in SUBSET Candidates(lines) :
        \A p \in Candidates(lines) :
            p \in O <=> ~(\E q \in O : q < p /\ CloseOf(lines, q) = p)

\* the blocks opened at the positions O, grouped by ID in file order
BlocksAt(lines, O) ==
    LET ids == {IntVal(IdLineAfter(lines, p)) : p \in O} IN
    [id \in ids |->
        LET at == Ascending({p \in O : IntVal(IdLineAfter(lines, p)) = id})
        IN  [k \in 1..Len(at) |->
                [block_id |-> id,
                 lines |-> SubSeq(lines, at[k] + 2, CloseOf(lines, at[k]) - 1)]]]

Doubled ==
    /\ made.at > 0
    /\ made.at + 1 <= Len(made.lines)
    /\ IdLineAfter(made.lines, made.at) = "-1"

SameScan(p, q) == blocks[p] = blocks[q] /\ status[p] = status[q]

\* C17 as stated: the second line of a doubled delimiter is a stray that
\* neither opens nor closes a block: the scan gives what it gives on the
\* file without the two lines.
C17_DoubledDelimiterGuard_Original ==
    (AllConstructed /\ Doubled) => SameScan(1, 3)

\* C17 amended: no block is created for the first line and the scan
\* resumes at the second line: it gives what it gives on the file without
\* the first line, and, when the second line is a bare -1, on the file
\* without the two lines.
C17_DoubledDelimiterGuard ==
    (AllConstructed /\ Doubled) =>
        /\ SameScan(1, 2)
        /\ made.lines[made.at + 1] # BLOCK_DELIMITER => SameScan(1, 3)

\* two delimiter lines, and the second one opened a block
C17_Witness ==
    /\ AllConstructed
    /\ Doubled
    /\ made.lines[made.at + 1] = BLOCK_DELIMITER
    /\ blocks[1] # NoBlocks
    /\ blocks[3] = NoBlocks

\* the line after the first delimiter line is not an integer
BadId ==
    /\ made.at > 0
    /\ made.at + 1 <= Len(made.lines)
    /\ ~IsIntLit(IdLineAfter(made.lines, made.at))

\* C18: when the line after a delimiter line does not parse as an integer,
\* no Block is created, no line is appended to a Block, and the scanner
\* goes back to seeking: the scan gives what it gives on the file without
\* the delimiter line, and without the two lines.
C18_UnparsableBlockId ==
    (AllConstructed /\ BadId) => SameScan(1, 2) /\ SameScan(1, 3)

\* after the unparsable ID line the scanner found a block
C18_Witness ==
    /\ AllConstructed
    /\ BadId
    /\ status[1] = "ok"
    /\ blocks[1] # NoBlocks

-----------------------------------------------------------------------------
(* One block of 402, 404 or 450 lines, and the same block without the       *)
(* lines of its first record and without its first line                      *)

MaxStrideUnits == 2

StrideFamilies == {402, 404, 450}

\* the lines i += 7, i += 7 and i += 6 step over
Stride(family) ==
    CASE family = 402 -> 7
      [] family = 404 -> 7
      [] family = 450 -> 6

\* what a block is written from: records whose required fields parse, and
\* lines that fail: a field that is no number, too few fields, a
\* connectivity or value line that is no number, an ID beyond a C int
StrideUnits(family) ==
    CASE family = 402 ->
           {PropertyRec(7, 3, "core"), PropertyRec(8, 4, "coil"), PropertyRec(7, 4, "yoke"),
            Junk(<<"x,110,3,10,1,0,0,">>), Junk(<<"7,110,">>),
            Junk(<<"2147483648,110,3,10,1,0,0,">>)}
      [] family = 404 ->
           {ElementRec(10, 7, 2, <<1, 2, 5, 0, 0, 0, 0, 0, 0, 0>>, <<0, 0, 0, 0, 0, 0, 0, 0, 0, 0>>),
            ElementRec(11, 8, 2, <<2, 0, 1, 0, 0, 0, 0, 0, 0, 0>>, <<5, 0, 0, 0, 0, 0, 0, 0, 0, 0>>),
            Junk(<<"x,124,7,25,2,1,0,0,">>),
            Junk(WithLine(ElementRec(12, 7, 2, <<1, 2, 5, 0, 0, 0, 0, 0, 0, 0>>,
                                     <<0, 0, 0, 0, 0, 0, 0, 0, 0, 0>>).lines,
                          2, "1,x,5,0,0,0,0,0,0,0,")),
            Junk(<<"2147483648,124,7,25,2,1,0,0,">>)}
      [] family = 450 ->
           {OutputSetRec(1, "STEP1", F(1, 2)), OutputSetRec(2, "STEP2", F(2, 2)),
            OutputSetRec(1, "AGAIN", F(3, 2)),
            Junk(<<"x,">>),
            Junk(WithLine(OutputSetRec(3, "STEP3", F(1, 2)).lines, 4, "x,")),
            Junk(<<"2147483648,">>)}

\* lines without the first n of them
DropFirst(lines, n) == SubSeq(lines, n + 1, Len(lines))

StrideInit ==
    /\ TokIdle
    /\ ConvIdle
    /\ \E family \in StrideFamilies :
         \E units \in SeqsUpTo(StrideUnits(family), MaxStrideUnits) :
            LET lines == LinesOf(units) IN
            ParserStart(<<WriteFile(<<Block(IdLine(family), lines, <<>>)>>),
                          WriteFile(<<Block(IdLine(family),
                                            DropFirst(lines, Stride(family)), <<>>)>>),
                          WriteFile(<<Block(IdLine(family), DropFirst(lines, 1), <<>>)>>)>>,
                        [family |-> family, units |-> units])

StrideNext ==
    \/ \E p \in Parsers : Construct(p)
    \/ GetProperties
    \/ GetElements
    \/ GetOutputSets

SpecStride == StrideInit /\ [][StrideNext]_vars

\* the entry a record written by PropertyRec, ElementRec or OutputSetRec
\* stands for
EntryOf(family, data) ==
    CASE family = 402 ->
           [key |-> data.id, value |-> [material_id |-> data.material_id, title |-> data.title]]
      [] family = 404 ->
           [id |-> data.id, prop_id |-> data.prop_id, topology |-> data.topology,
            nodes |-> SelectSeq(data.conn, LAMBDA n : n # 0)]
      [] family = 450 ->
           [key |-> data.id, value |-> [title |-> data.title, value |-> data.value]]

\* the entries after one entry was emitted and then the entries of rest
RECURSIVE DictUpdate(_, _)
DictUpdate(d, rest) ==
    IF rest = <<>> THEN d
    ELSE DictUpdate(DictSet(d, Head(rest).key, Head(rest).value), Tail(rest))

EmittedThen(family, entry, rest) ==
    IF family = 404 THEN <<entry>> \o rest
    ELSE DictUpdate(<<entry>>, rest)

\* the extractor of the block ran on the three files
StrideExtracted ==
    /\ call.fn = ExtractorOf(made.family)
    /\ \A p \in Parsers : status[p] = "ok"
    /\ made.units # <<>>

\* C19 as stated: in the 402, 404 and 450 extractors a record whose
\* required fields parse advances the cursor by the stride (7, 7, 6 lines)
\* and emits one entry: the result is that entry followed by the result on
\* the lines after the stride; a record that fails to parse advances the
\* cursor by one line and emits nothing: the result is the result on the
\* lines after the first.
C19_RecordStride ==
    StrideExtracted =>
        IF made.units[1].complete
        THEN /\ ret[1].exc = ret[2].exc
             /\ ret[2].exc = "none" =>
                   ret[1].val = EmittedThen(made.family,
                                            EntryOf(made.family, made.units[1].data),
                                            ret[2].val)
        ELSE ret[1] = ret[3]

-----------------------------------------------------------------------------
(* C20  Tokenizer rule                                                     *)

\* the line without its trailing commas and then without the whitespace
\* around what is left
Remainder(l) == Strip(RStrip(l, {","}))

\* the positions of sep in s, with the positions before and after s
Cuts(s, sep) == {0, Len(s) + 1} \cup {i \in 1..Len(s) : Ch(s, i) = sep}

\* the elements of a finite set of integers in increasing order
RECURSIVE SortedSeq(_)
SortedSeq(S) == IF S = {} THEN <<>> ELSE <<SetMin(S)>> \o SortedSeq(S \ {SetMin(S)})

\* the text between consecutive commas of s, trimmed, in order
TrimmedFragments(s) ==
    LET cuts == SortedSeq(Cuts(s, ","))
    IN  [k \in 1..(Len(cuts) - 1) |-> Strip(SubSeq(s, cuts[k] + 1, cuts[k + 1] - 1))]

\* the first positions of the maximal runs of non-whitespace characters
RunStarts(s) ==
    {i \in 1..Len(s) : Ch(s, i) \notin Whitespace /\ (i = 1 \/ Ch(s, i - 1) \in Whitespace)}

\* the last position of the run that starts at i
RunEnd(s, i) ==
    SetMin({j \in i..Len(s) : j = Len(s) \/ Ch(s, j + 1) \in Whitespace})

WhitespaceTokens(s) ==
    LET starts == SortedSeq(RunStarts(s))
    IN  [k \in 1..Len(starts) |-> SubSeq(s, starts[k], RunEnd(s, starts[k]))]

\* a field that is not empty and neither starts nor ends with whitespace
CleanField(f) ==
    /\ f # ""
    /\ Ch(f, 1) \notin Whitespace
    /\ Ch(f, Len(f)) \notin Whitespace

\* C20: parse_csv_line trims the trailing commas and then the surrounding
\* whitespace; when a comma is left it returns the fragments between the
\* commas, each trimmed, the empty ones dropped, in order; otherwise it
\* returns the maximal runs of non-whitespace characters; no field returned
\* is empty or starts or ends with whitespace.
C20_TokenizerRule ==
    parts.set =>
        /\ parts.val = (IF Contains(Remainder(line), ",")
                        THEN SelectSeq(TrimmedFragments(Remainder(line)), LAMBDA f : f # "")
                        ELSE WhitespaceTokens(Remainder(line)))
        /\ \A k \in 1..Len(parts.val) : CleanField(parts.val[k])

\* a line with whitespace around a comma and a trailing comma, and a line
\* of two tokens with a run of whitespace between them
C20_Witness ==
    /\ parts.set
    /\ \/ line = "a ,\ta," /\ parts.val = <<"a", "a">>
       \/ line = " a \ta," /\ parts.val = <<"a", "a">>

-----------------------------------------------------------------------------
(* One Block 1051: a first vector up to its end marker, and what follows    *)

MaxFollowing == 1

\* a vector written as its header, its result lines and its closing line,
\* with the results the lines stand for
VectorOf(set_id, vec_id, ent_type, result_lines, closing, results) ==
    Rec(VectorHeader(set_id, vec_id, "Bx", ent_type) \o result_lines \o <<closing>>,
        [set_id |-> set_id, vec_id |-> vec_id, title |-> "Bx", ent_type |-> ent_type,
         results |-> results])

\* first vectors: one entity per line; a run that is complete; a run cut
\* short by the end marker on its own line and after a continuation line;
\* an end marker with further fields and one written with spaces; lines
\* that are nearly an end marker; a line of one field; no result at all;
\* and a vector whose first result line does not parse
FirstVectors ==
    {VectorOf(1, 2, 7, <<"5,1.5,">>, EndMarker, <<[id |-> 5, value |-> F(15, 1)]>>),
     VectorOf(1, 2, 7, <<"5,6,1.,2.,">>, EndMarker,
              <<[id |-> 5, value |-> F(1, 0)], [id |-> 6, value |-> F(2, 0)]>>),
     VectorOf(1, 2, 8, <<"5,8,1.,2.,">>, EndMarker,
              <<[id |-> 5, value |-> F(1, 0)], [id |-> 6, value |-> F(2, 0)]>>),
     VectorOf(1, 2, 8, <<"5,9,1.,2.,", "3.,">>, EndMarker,
              <<[id |-> 5, value |-> F(1, 0)], [id |-> 6, value |-> F(2, 0)],
                [id |-> 7, value |-> F(3, 0)]>>),
     VectorOf(1, 3, 7, <<"5,1.5,">>, "-1,0.,0,", <<[id |-> 5, value |-> F(15, 1)]>>),
     VectorOf(1, 3, 7, <<"5,1.5,">>, "-1 0.", <<[id |-> 5, value |-> F(15, 1)]>>),
     VectorOf(1, 3, 7, <<"-1,1.,", "5,1.5,">>, EndMarker,
              <<[id |-> -1, value |-> F(1, 0)], [id |-> 5, value |-> F(15, 1)]>>),
     VectorOf(1, 3, 7, <<"-2,0.,", "5,1.5,">>, EndMarker,
              <<[id |-> -2, value |-> F(0, 0)], [id |-> 5, value |-> F(15, 1)]>>),
     VectorOf(1, 3, 7, <<"9,", "5,1.5,">>, EndMarker, <<[id |-> 5, value |-> F(15, 1)]>>),
     VectorOf(1, 3, 7, <<>>, EndMarker, <<>>),
     BrokenVector}

\* what follows the first vector
FollowingVectors ==
    {VectorRec(2, 3, "By", 8, <<[id |-> 6, value |-> F(25, 1)]>>),
     BrokenVector,
     Junk(VectorHeader(3, 4, "Bz", 7) \o <<"6,2.5,">>)}

EndMarkerInit ==
    /\ TokIdle
    /\ ConvIdle
    /\ \E first \in FirstVectors :
         \E rest \in SeqsUpTo(FollowingVectors, MaxFollowing) :
            ParserStart(<<WriteFile(<<Block("   1051", first.lines \o LinesOf(rest), <<>>)>>),
                          WriteFile(<<Block("   1051", LinesOf(rest), <<>>)>>)>>,
                        [family |-> 1051, first |-> first, rest |-> rest])

EndMarkerNext ==
    \/ \E p \in Parsers : Construct(p)
    \/ GetOutputVectors

SpecEndMarker == EndMarkerInit /\ [][EndMarkerNext]_vars

\* the record get_output_vectors returns for a vector written by VectorOf
VectorEntry(data) ==
    [set_id |-> data.set_id, vec_id |-> data.vec_id, title |-> data.title,
     ent_type |-> <<data.ent_type>>,
     results |-> [k \in 1..Len(data.results) |->
                    [key |-> data.results[k].id, value |-> data.results[k].value]]]

\* get_output_vectors ran on the file and on the file of what follows the
\* first vector
VectorsExtracted ==
    /\ call.fn = "get_output_vectors"
    /\ \A p \in Parsers : status[p] = "ok"

\* C21: the result records of a vector end at the first line after its
\* seven header lines whose first two fields are -1 and 0.; that line is
\* consumed and gives no result, also when it arrives while a run is
\* still collecting values, and the line after it is read as the header
\* of the next vector: the file gives the first vector with the results
\* of the lines before that line, followed by what the lines after it give.
C21_ResultTerminator ==
    (VectorsExtracted /\ made.first.complete) =>
        /\ ret[1].exc = ret[2].exc
        /\ ret[2].exc = "none" =>
              ret[1].val = <<VectorEntry(made.first.data)>> \o ret[2].val

\* a run of four entities cut short by the end marker after two values,
\* and the vector after it
C21_Witness ==
    /\ VectorsExtracted
    /\ made.first.lines[8] = "5,8,1.,2.," /\ made.first.lines[9] = EndMarker
    /\ Len(made.rest) = 1 /\ made.rest[1].complete
    /\ Len(ret[1].val) = 2
    /\ Len(ret[1].val[1].results) = 2
    /\ ret[1].val[2].set_id = 2

-----------------------------------------------------------------------------
(* One Block 404: one element record with any short connectivity lines,    *)
(* cut after any of its lines, or a few records, well formed and not        *)

MaxConn == 2

\* the entries of a connectivity line
ConnIds == {0, 1, 2}

\* the lines of a record the block may end after
ElementCuts == {1, 2, 3, 7}

\* the element record ID 10, property 7, topology 2 with the connectivity
\* lines conn1 and conn2
ElementWith(conn1, conn2) == ElementRec(10, 7, 2, conn1, conn2)

ElementsInit ==
    /\ TokIdle
    /\ ConvIdle
    /\ \/ \E conn1, conn2 \in SeqsUpTo(ConnIds, MaxConn), cut \in ElementCuts :
            ParserStart(<<WriteFile(<<Block("   404",
                                            SubSeq(ElementWith(conn1, conn2).lines, 1, cut),
                                            <<>>)>>)>>,
                        [kind |-> "element", conn1 |-> conn1, conn2 |-> conn2, cut |-> cut])
       \/ \E units \in SeqsUpTo(StrideUnits(404), MaxStrideUnits) :
            ParserStart(<<WriteFile(<<Block("   404", LinesOf(units), <<>>)>>)>>,
                        [kind |-> "elements", units |-> units])

ElementsNext ==
    \/ \E p \in Parsers : Construct(p)
    \/ GetElements
    \/ GetElementsArrays

SpecElements == ElementsInit /\ [][ElementsNext]_vars

\* the connectivity entries on the lines of the record that the block holds
ConnWritten ==
    (IF made.cut >= 2 THEN made.conn1 ELSE <<>>) \o (IF made.cut >= 3 THEN made.conn2 ELSE <<>>)

\* C22: for a parsed element record, nodes is the integers of the first
\* connectivity line followed by those of the second, the zero entries
\* dropped and the order of the others kept, and fields 0, 2 and 4 of the
\* header line give id, prop_id and topology.
C22_ElementNodeList ==
    (made.kind = "element" /\ call.fn = "get_elements") =>
        /\ ret[1].exc = "none"
        /\ ret[1].val = <<[id |-> 10, prop_id |-> 7, topology |-> 2,
                           nodes |-> SelectSeq(ConnWritten, LAMBDA n : n # 0)]>>

\* zeros inside and at the end of both connectivity lines
C22_Witness ==
    /\ made.kind = "element" /\ call.fn = "get_elements"
    /\ made.cut = 7
    /\ made.conn1 = <<0, 2>> /\ made.conn2 = <<1, 0>>
    /\ files[1][4] = "0,2," /\ files[1][5] = "1,0,"
    /\ ret[1].val[1].nodes = <<2, 1>>

\* C27 as stated: for every input get_elements_arrays encodes the list of
\* get_elements: element_ids, prop_ids and topologies hold the id, prop_id
\* and topology of the elements in order, offsets has one entry more than
\* element_ids, does not decrease, ends at len(connectivity), and
\* connectivity[offsets[k]:offsets[k+1]] is the nodes list of element k.
C27_ArrayViewOfElements ==
    (call.fn = "get_elements_arrays" /\ status[1] = "ok") =>
        LET list == get_elements(blocks[1])
            a == ret[1].val
            n == Len(list.val)
        IN  /\ ret[1].exc = list.exc
            /\ list.exc = "none" =>
                  /\ a.element_ids = [k \in 1..n |-> list.val[k].id]
                  /\ a.prop_ids = [k \in 1..n |-> list.val[k].prop_id]
                  /\ a.topologies = [k \in 1..n |-> list.val[k].topology]
                  /\ Len(a.offsets) = n + 1
                  /\ \A k \in 1..(Len(a.offsets) - 1) : a.offsets[k] <= a.offsets[k + 1]
                  /\ a.offsets[Len(a.offsets)] = Len(a.connectivity)
                  /\ \A k \in 1..n :
                        k + 1 <= Len(a.offsets) =>
                           SubSeq(a.connectivity, a.offsets[k] + 1, a.offsets[k + 1])
                              = list.val[k].nodes

-----------------------------------------------------------------------------
(* Block 450 records in one Block 450, and distributed over two of them     *)
(* with a Block 100 in between                                              *)

MaxSetRecords == 2

\* output set records: three IDs, one of them twice, a <NULL> title, and a
\* record written as the sample of the format is: no comma after the ID,
\* the title and the notes, a space before the value
SetRecords ==
    {OutputSetRec(1, "STEP1", F(1, 2)), OutputSetRec(2, "STEP2", F(2, 2)),
     OutputSetRec(1, "AGAIN", F(3, 2)), OutputSetRec(3, "<NULL>", F(0, 0)),
     Rec(<<"6", "STEP:6 Time", "0,3,", " 1.5,", "1,", "<NULL>">>,
         [id |-> 6, title |-> "STEP:6 Time", value |-> F(15, 1)])}

SetsInit ==
    /\ TokIdle
    /\ ConvIdle
    /\ \E recs \in SeqsUpTo(SetRecords, MaxSetRecords) :
         \E k \in 0..Len(recs) :
            ParserStart(<<WriteFile(<<Block("   450", LinesOf(recs), <<>>)>>),
                          WriteFile(<<Block("   450", LinesOf(SubSeq(recs, 1, k)), <<>>),
                                      Header100,
                                      Block("   450", LinesOf(SubSeq(recs, k + 1, Len(recs))),
                                            <<>>)>>)>>,
                        [family |-> 450, recs |-> recs, first |-> k])

SetsNext ==
    \/ \E p \in Parsers : Construct(p)
    \/ GetOutputSets

SpecSets == SetsInit /\ [][SetsNext]_vars

\* set_id -> {title, value} of the records written, the record written
\* last for an ID giving its entry
LastWinsSets(recs) ==
    LET data == [j \in 1..Len(recs) |-> recs[j].data] IN
    {[key |-> data[k].id,
      value |-> [title |-> IF LastWritten(data, data[k].id).title = "<NULL>" THEN ""
                           ELSE LastWritten(data, data[k].id).title,
                 value |-> LastWritten(data, data[k].id).value]] : k \in 1..Len(data)}

\* C23: every Block 450 record gives set_id (field 0 of its first line)
\* mapped to the title on the next line and the float in field 0 of the
\* third line after it; a set ID that occurs again replaces the earlier
\* entry; the map is the same however the records are distributed over
\* Block 450 instances.
C23_OutputSetExtraction ==
    (call.fn = "get_output_sets" /\ \A p \in Parsers : status[p] = "ok") =>
        \A p \in Parsers :
            /\ ret[p].exc = "none"
            /\ DictItems(ret[p].val) = LastWinsSets(made.recs)
            /\ Len(ret[p].val) = Cardinality(LastWinsSets(made.recs))

\* set 1 written twice, once in each Block 450: one entry, of the second
\* record
C23_Witness ==
    /\ call.fn = "get_output_sets" /\ \A p \in Parsers : status[p] = "ok"
    /\ Len(made.recs) = 2 /\ made.first = 1
    /\ made.recs[1].data.title = "STEP1" /\ made.recs[2].data.title = "AGAIN"
    /\ Len(blocks[2][450]) = 2
    /\ ret[2].val = <<[key |-> 1, value |-> [title |-> "AGAIN", value |-> F(3, 2)]]>>

-----------------------------------------------------------------------------
(* Vectors in two Block 1051 instances of one file                          *)

MaxPerBlock == 2

\* a vector of one result line; sixth is the sixth line of its header and
\* ent_type what field 3 of that line holds, <<>> standing for None
OrderVector(set_id, vec_id, sixth, ent_type) ==
    Rec(WithLine(VectorHeader(set_id, vec_id, "Bx", 7), 6, sixth) \o <<"5,1.5,", EndMarker>>,
        [set_id |-> set_id, vec_id |-> vec_id, ent_type |-> ent_type])

\* nodal and elemental vectors of two sets, and a vector whose sixth line
\* has three fields only
OrderVectors ==
    {OrderVector(1, 2, "0,0,3,7,", <<7>>),
     OrderVector(2, 2, "0,0,3,8,", <<8>>),
     OrderVector(1, 3, "0,0,3,7,", <<7>>),
     OrderVector(2, 4, "0,0,3,", <<>>)}

\* the lines without the last one: the last vector of the block is left
\* without its end marker
Unclosed(lines) == IF lines = <<>> THEN lines ELSE SubSeq(lines, 1, Len(lines) - 1)

\* what is written between the two Block 1051 instances
Between == {<<>>, <<Header100>>, <<BlockOf("   450", <<OutputSetRec(1, "STEP1", F(1, 2))>>)>>}

OrderInit ==
    /\ TokIdle
    /\ ConvIdle
    /\ \E a \in SeqsUpTo(OrderVectors, MaxPerBlock), b \in SeqsUpTo(OrderVectors, MaxPerBlock),
          between \in Between, open \in BOOLEAN :
          ParserStart(<<WriteFile(<<Block("   1051",
                                          IF open THEN Unclosed(LinesOf(a)) ELSE LinesOf(a),
                                          <<>>)>>
                                  \o between
                                  \o <<Block("   1051", LinesOf(b), <<>>)>>)>>,
                      [family |-> 1051, first |-> a, second |-> b, between |-> between,
                       open |-> open])

OrderNext ==
    \/ \E p \in Parsers : Construct(p)
    \/ GetOutputVectors

SpecOrder == OrderInit /\ [][OrderNext]_vars

\* set_id, vec_id and ent_type of each record of a list, in its order
HeadersOf(records) ==
    [k \in 1..Len(records) |->
        [set_id |-> records[k].set_id, vec_id |-> records[k].vec_id,
         ent_type |-> records[k].ent_type]]

\* C24: get_output_vectors returns one record per vector header of the
\* Block 1051 instances of the file, in the order of the file: the vectors
\* of the first instance in line order, then those of the second; each
\* record carries the set_id and vec_id of its header line and as ent_type
\* field 3 of its sixth line.
C24_VectorOrder ==
    (call.fn = "get_output_vectors" /\ status[1] = "ok") =>
        /\ ret[1].exc = "none"
        /\ HeadersOf(ret[1].val)
              = [k \in 1..Len(made.first \o made.second) |-> (made.first \o made.second)[k].data]

\* two vectors in the first instance, the second left without its end
\* marker, a Block 450 written next, and a vector of another set in the
\* second instance
C24_Witness ==
    /\ call.fn = "get_output_vectors" /\ status[1] = "ok"
    /\ Len(made.first) = 2 /\ Len(made.second) = 1 /\ made.open
    /\ made.between # <<>> /\ made.between[1].idline = "   450"
    /\ Len(blocks[1][1051]) = 2
    /\ HeadersOf(ret[1].val)
          = <<[set_id |-> 1, vec_id |-> 3, ent_type |-> <<7>>],
              [set_id |-> 2, vec_id |-> 4, ent_type |-> <<>>],
              [set_id |-> 2, vec_id |-> 2, ent_type |-> <<8>>]>>

-----------------------------------------------------------------------------
(* Block 601: material records written as the format writes them            *)

MaxMaterials == 2

TenInts == "0,0,0,0,0,0,0,0,0,0,"
TenReals == "0.,0.,0.,0.,0.,0.,0.,0.,0.,0.,"

\* a material record as the sample of Data Block 601 holds it: the ID line,
\* the title, then the groups of integer flags, real values, function IDs
\* and table IDs, each led by the line that counts its entries; of the
\* runs of equal lines in the groups of 200, 50 and 70 entries the first
\* and the last line are written
MaterialSample(id) ==
    Rec(<<Dec(id) \o ",-601,55,0,0,1,0,", "<NULL>", "10,", TenInts, "25,", TenInts, TenInts,
          "0,0,0,0,0,", "200,", TenReals, TenReals \o ",", "50,", TenInts, TenInts,
          "70,", TenInts, TenInts>>,
        [id |-> id])

\* records of the sample's form, and records of their ID line alone
MaterialRecords ==
    {MaterialSample(1), MaterialSample(3), MaterialRec(1), MaterialRec(2), MaterialRec(4)}

\* the records in one Block 601, or distributed over two; a file holds at
\* most one record of the sample's form
MaterialsInit ==
    /\ TokIdle
    /\ ConvIdle
    /\ \E recs \in SeqsUpTo(MaterialRecords, MaxMaterials) :
         \E k \in 0..Len(recs) :
            /\ Cardinality({j \in 1..Len(recs) : Len(recs[j].lines) > 1}) <= 1
            /\ ParserStart(<<WriteFile(<<Block("   601", LinesOf(SubSeq(recs, 1, k)), <<>>),
                                         Block("   601",
                                               LinesOf(SubSeq(recs, k + 1, Len(recs))),
                                               <<>>)>>)>>,
                           [family |-> 601, recs |-> recs, first |-> k])

MaterialsNext ==
    \/ \E p \in Parsers : Construct(p)
    \/ GetMaterials

SpecMaterials == MaterialsInit /\ [][MaterialsNext]_vars

\* C25: get_materials returns exactly the material IDs of the material
\* records of all Block 601 instances, each mapped to {"id": ID}; the
\* payload lines of a record contribute no entry.
C25_MaterialExtraction ==
    (call.fn = "get_materials" /\ status[1] = "ok") =>
        /\ ret[1].exc = "none"
        /\ DictItems(ret[1].val)
              = {[key |-> made.recs[j].data.id, value |-> [id |-> made.recs[j].data.id]] :
                    j \in 1..Len(made.recs)}

\* what the code returns: an entry for every line of the blocks whose
\* first field is an integer
IntegerLedLines ==
    {IntVal(_parse_csv_line_fast(l)[1]) :
        l \in {m \in {files[1][j] : j \in 1..Len(files[1])} :
                  /\ m \notin {"   -1", "   601"}
                  /\ _parse_csv_line_fast(m) # <<>>
                  /\ int_exc(_parse_csv_line_fast(m)[1]) = "none"}}

MaterialsOfEveryIntegerLine ==
    (call.fn = "get_materials" /\ status[1] = "ok") =>
        /\ ret[1].exc = "none"
        /\ {ret[1].val[j].key : j \in 1..Len(ret[1].val)} = IntegerLedLines

-----------------------------------------------------------------------------
(* The loops of _parse and of the extractors, one iteration at a step       *)

MaxWalkLines == 2
MaxWalkRecords == 1

\* the cursor of method fn at line i of the block walked, in loop at
At(fn, at, b, i) == [fn |-> fn, at |-> at, b |-> b, i |-> i, have |-> 0, need |-> 0]

\* the cursor moved to line i, in loop at
Go(c, at, i) == [c EXCEPT !.at = at, !.i = i]

\* the cursor where it is, a loop left
Leave(c, at) == [c EXCEPT !.at = at]

\* a slip: the handler leaves the cursor where it is
SkipLineStays(i) == i

\* "i += 1" of the except clauses and of the lines that start no record
SkipLine(i) == i + 1

\* the extractors and the block ID each reads
Extractors ==
    {"get_nodes", "get_nodes_arrays", "get_properties", "get_elements",
     "get_elements_arrays", "get_materials", "get_output_sets", "get_output_vectors",
     "get_output_vectors_arrays"}

VectorExtractors == {"get_output_vectors", "get_output_vectors_arrays"}

BlockIdOf(fn) ==
    CASE fn \in {"get_nodes", "get_nodes_arrays"} -> 403
      [] fn = "get_properties" -> 402
      [] fn \in {"get_elements", "get_elements_arrays"} -> 404
      [] fn = "get_materials" -> 601
      [] fn = "get_output_sets" -> 450
      [] fn \in VectorExtractors -> 1051

\* the lines a record of the extractor takes: i += 1, 7, 7, 1, 6 and 7
RecordLines(fn) ==
    CASE fn \in {"get_nodes", "get_nodes_arrays", "get_materials"} -> 1
      [] fn = "get_output_sets" -> 6
      [] OTHER -> 7

\* the try block at line i of an extractor other than those of Block 1051:
\* "short" when the line has too few fields for the try to be entered,
\* otherwise the exception raised, "none" when the record is stored
RecordExc(fn, lines, i) ==
    LET p == _parse_csv_line_fast(lines[i])
        value_parts == IF i + 3 <= Len(lines) THEN _parse_csv_line_fast(lines[i + 3]) ELSE <<>>
    IN  CASE fn \in {"get_nodes", "get_nodes_arrays"} ->
               IF Len(p) >= 14 THEN NodeExc(p) ELSE "short"
          [] fn = "get_properties" ->
               IF Len(p) >= 3 THEN FirstExc(<<int_exc(p[1]), int_exc(p[3])>>) ELSE "short"
          [] fn \in {"get_elements", "get_elements_arrays"} ->
               IF Len(p) >= 5
               THEN FirstExc(<<int_exc(p[1]), int_exc(p[3]), int_exc(p[5])>>
                             \o IntExcs(Nodes1(lines, i) \o Nodes2(lines, i)))
               ELSE "short"
          [] fn = "get_materials" ->
               IF Len(p) >= 1 THEN int_exc(p[1]) ELSE "short"
          [] fn = "get_output_sets" ->
               IF Len(p) >= 1
               THEN FirstExc(<<int_exc(p[1])>>
                             \o (IF Len(value_parts) >= 1
                                 THEN <<float_exc(value_parts[1])>> ELSE <<>>))
               ELSE "short"

\* the cursor after the try block at line i ended with exc: the handler of
\* (ValueError, IndexError) skips the line, any other exception leaves the
\* method
Handled(c, exc) ==
    IF exc \in Caught THEN Go(c, "outer", SkipLine(c.i)) ELSE Leave(c, "raised")

\* the blocks the method at the cursor walks, and the lines of the one it
\* is in
WalkedBlocks == get_blocks(blocks[1], BlockIdOf(cursor.fn))
WalkedLines == WalkedBlocks[cursor.b].lines

\* the filters of the call walked
set_id_filter == call.args[1]
vec_id_filter == call.args[2]

\* the header at line i is one the filters of get_output_vectors_arrays
\* pass over
Filtered(p) ==
    /\ cursor.fn = "get_output_vectors_arrays"
    /\ \/ set_id_filter >= 0 /\ IntVal(p[1]) # set_id_filter
       \/ vec_id_filter >= 0 /\ IntVal(p[2]) # vec_id_filter

\* the result loop is left: get_output_vectors appends the record and goes
\* on with the next line, get_output_vectors_arrays returns
AfterResults(c, i) ==
    IF c.fn = "get_output_vectors_arrays" THEN Go(c, "done", i) ELSE Go(c, "outer", i)

\* one pass through the while loops of _parse
OuterOfParse(c, lines) ==
    IF c.i > Len(lines) THEN Leave(c, "done")
    ELSE IF lines[c.i] = BLOCK_DELIMITER /\ c.i + 1 <= Len(lines) THEN
        LET next_line == Strip(lines[c.i + 1]) IN
        IF IsDoubleDelimiter(next_line) THEN Go(c, "outer", c.i + 1)
        ELSE IF int_exc(next_line) = "none" THEN Go(c, "inner", c.i + 2)
        ELSE IF int_exc(next_line) = "ValueError" THEN Go(c, "outer", SkipLine(c.i))
        ELSE Leave(c, "raised")
    ELSE Go(c, "outer", c.i + 1)

InnerOfParse(c, lines) ==
    IF c.i > Len(lines) THEN Leave(c, "outer")
    ELSE IF lines[c.i] = BLOCK_DELIMITER THEN Go(c, "outer", c.i + 1)
    ELSE Go(c, "inner", c.i + 1)

\* one pass through "while i < n_lines" of an extractor, the for loop over
\* the blocks taking the next block when the lines of one are exhausted
OuterOfExtractor(c, lines, n_blocks) ==
    IF c.i > Len(lines)
    THEN IF c.b < n_blocks THEN [c EXCEPT !.b = c.b + 1, !.i = 1] ELSE Leave(c, "done")
    ELSE IF c.fn \in VectorExtractors THEN
        LET p == _parse_csv_line_fast(lines[c.i])
            exc == FirstExc(<<int_exc(p[1]), int_exc(p[2])>>)
        IN  IF Len(p) < 2 THEN Go(c, "outer", SkipLine(c.i))
            ELSE IF exc # "none" THEN Handled(c, exc)
            ELSE IF Filtered(p) THEN Go(c, "skip", c.i + 7)
            ELSE IF EntTypeExc(lines, c.i) # "none" THEN Handled(c, EntTypeExc(lines, c.i))
            ELSE Go(c, "results", c.i + 7)
    ELSE LET exc == RecordExc(c.fn, lines, c.i) IN
         IF exc = "none" THEN Go(c, "outer", c.i + RecordLines(c.fn))
         ELSE IF exc = "short" THEN Go(c, "outer", SkipLine(c.i))
         ELSE Handled(c, exc)

\* one pass through the result loop of a vector
OfResults(c, lines) ==
    IF c.i > Len(lines) THEN AfterResults(c, c.i)
    ELSE LET result_parts == _parse_csv_line_fast(lines[c.i])
             rest == SubSeq(result_parts, 3, Len(result_parts))
         IN  IF IsEndMarker(result_parts) THEN AfterResults(c, c.i + 1)
             ELSE IF Len(result_parts) = 2 THEN
                 LET exc == FirstExc(<<int_exc(result_parts[1]), float_exc(result_parts[2])>>)
                 IN  IF exc = "none" THEN Go(c, "results", c.i + 1) ELSE Handled(c, exc)
             ELSE IF Len(result_parts) > 2 THEN
                 LET exc == FirstExc(<<int_exc(result_parts[1]), int_exc(result_parts[2])>>
                                     \o FloatExcs(rest))
                 IN  IF exc = "none"
                     THEN [c EXCEPT !.at = "cont", !.i = c.i + 1, !.have = Len(rest),
                                    !.need = IntVal(result_parts[2]) - IntVal(result_parts[1]) + 1]
                     ELSE Handled(c, exc)
             ELSE Go(c, "results", c.i + 1)

\* one pass through "while len(values) < entity_count and i < n_lines"
OfContinuation(c, lines) ==
    IF c.have < c.need /\ c.i <= Len(lines) THEN
        LET cont_parts == _parse_csv_line_fast(lines[c.i]) IN
        IF IsEndMarker(cont_parts) THEN Leave(c, "results")
        ELSE IF FirstExc(FloatExcs(cont_parts)) # "none"
             THEN Handled(c, FirstExc(FloatExcs(cont_parts)))
        ELSE [c EXCEPT !.i = c.i + 1, !.have = c.have + Len(cont_parts)]
    ELSE Leave(c, "results")

\* one pass through the loop "Skip to end marker"
OfSkip(c, lines) ==
    IF c.i > Len(lines) THEN Leave(c, "outer")
    ELSE IF IsEndMarker(_parse_csv_line_fast(lines[c.i])) THEN Go(c, "outer", c.i + 1)
    ELSE Go(c, "skip", c.i + 1)

\* the cursor after one pass through the loop it is in
NextCursor ==
    CASE cursor.fn = "_parse" /\ cursor.at = "outer" -> OuterOfParse(cursor, files[1])
      [] cursor.fn = "_parse" /\ cursor.at = "inner" -> InnerOfParse(cursor, files[1])
      [] cursor.fn \in Extractors /\ cursor.at = "outer" ->
           OuterOfExtractor(cursor, WalkedLines, Len(WalkedBlocks))
      [] cursor.fn \in Extractors /\ cursor.at = "results" -> OfResults(cursor, WalkedLines)
      [] cursor.fn \in Extractors /\ cursor.at = "cont" -> OfContinuation(cursor, WalkedLines)
      [] cursor.fn \in Extractors /\ cursor.at = "skip" -> OfSkip(cursor, WalkedLines)
      [] OTHER -> cursor

\* FEMAPParser.__init__ entered: _parse starts at the first line
StartParse ==
    /\ cursor = NotStarted
    /\ status[1] = "new"
    /\ cursor' = At("_parse", "outer", 1, 1)
    /\ UNCHANGED <<files, made, build, status, blocks, call, ret, tokVars, convVars>>

\* a pass through the loops of _parse
ParseStep ==
    /\ cursor.fn = "_parse"
    /\ cursor.at \in {"outer", "inner"}
    /\ cursor' = NextCursor
    /\ UNCHANGED <<files, made, build, status, blocks, call, ret, tokVars, convVars>>

\* _parse has ended: the instance holds its blocks
Constructed ==
    /\ cursor.fn = "_parse"
    /\ cursor.at \in {"done", "raised"}
    /\ Construct(1)

\* an extractor is called: it starts at the first line of the first block
\* of its ID
StartExtractor ==
    /\ status[1] = "ok"
    /\ call = NotCalled
    /\ \E fn \in Extractors, args \in WalkFilters :
         /\ (fn # "get_output_vectors_arrays") => args = <<-1, -1>>
         /\ call' = [fn |-> fn, args |-> args]
         /\ cursor' = IF get_blocks(blocks[1], BlockIdOf(fn)) = <<>>
                      THEN At(fn, "done", 0, 0) ELSE At(fn, "outer", 1, 1)
    /\ UNCHANGED <<files, made, build, status, blocks, ret, tokVars, convVars>>

\* a pass through the loop over the lines of a block
RecordStep ==
    /\ cursor.fn \in Extractors
    /\ cursor.at = "outer"
    /\ cursor' = NextCursor
    /\ UNCHANGED <<files, made, build, status, blocks, call, ret, tokVars, convVars>>

\* a pass through the result loop of a vector
ResultStep ==
    /\ cursor.fn \in Extractors
    /\ cursor.at = "results"
    /\ cursor' = NextCursor
    /\ UNCHANGED <<files, made, build, status, blocks, call, ret, tokVars, convVars>>

\* a pass through the Format-2 continuation loop
ContinuationStep ==
    /\ cursor.fn \in Extractors
    /\ cursor.at = "cont"
    /\ cursor' = NextCursor
    /\ UNCHANGED <<files, made, build, status, blocks, call, ret, tokVars, convVars>>

\* a pass through a filter-skip loop
SkipStep ==
    /\ cursor.fn \in Extractors
    /\ cursor.at = "skip"
    /\ cursor' = NextCursor
    /\ UNCHANGED <<files, made, build, status, blocks, call, ret, tokVars, convVars>>

\* the lines written after the header of a vector: single results, runs,
\* continuation values, the end marker, lines that do not parse, a line of
\* one field and an entity ID beyond a C int
WalkResultLines ==
    {"5,1.5,", "5,8,1.,2.,", "3.,", EndMarker, "5,x,", "9,", "5,8,x,", "2147483648,1.,"}

\* the headers written: one that parses and one whose sixth line does not
WalkHeaders ==
    {VectorHeader(1, 2, "Bx", 7), WithLine(VectorHeader(2, 3, "By", 7), 6, "0,0,3,x,")}

\* what the blocks of the other extractors are written from
WalkUnits(family) ==
    CASE family = 403 -> Records(403)
      [] family = 601 -> {MaterialRec(1), MaterialSample(3), Junk(<<"x,">>)}
      [] OTHER -> StrideUnits(family)

CursorInit ==
    /\ TokIdle
    /\ ConvIdle
    /\ \/ \E lines \in SeqsUpTo(ScanLines, MaxWalkLines) :
            ParserStart(<<lines>>, [family |-> "scan"])
       \/ \E header \in WalkHeaders, results \in SeqsUpTo(WalkResultLines, MaxWalkLines),
             after \in {<<>>, VectorRec(2, 3, "By", 8, <<[id |-> 6, value |-> F(25, 1)]>>).lines} :
            ParserStart(<<WriteFile(<<Block("   1051", header \o results, <<>>),
                                      Block("   1051", after, <<>>)>>)>>,
                        [family |-> 1051])
       \/ \E family \in {403, 402, 404, 601, 450} :
            \E first \in SeqsUpTo(WalkUnits(family), MaxWalkRecords),
               second \in SeqsUpTo(WalkUnits(family), 1) :
               ParserStart(<<WriteFile(<<Block(IdLine(family), LinesOf(first), <<>>),
                                         Block(IdLine(family), LinesOf(second), <<>>)>>)>>,
                           [family |-> family])

CursorNext ==
    \/ StartParse
    \/ ParseStep
    \/ Constructed
    \/ StartExtractor
    \/ RecordStep
    \/ ResultStep
    \/ ContinuationStep
    \/ SkipStep

\* a method is inside one of its loops; it has returned or raised
Walking == cursor.at \in {"outer", "inner", "results", "cont", "skip"}
Ended == cursor.at \in {"done", "raised"}

\* a pass through a loop of the method that is running
Pass == ParseStep \/ RecordStep \/ ResultStep \/ ContinuationStep \/ SkipStep

\* ENABLED <<Pass>>_vars as a state predicate: a method is in a loop and
\* the pass changes the cursor
PassEnabled == Walking /\ NextCursor # cursor

\* the method that is running goes on running, nothing else is required of
\* the interpreter: WF_vars(Pass), with ENABLED <<Pass>>_vars written as
\* the state predicate it is
FairPass == []<>(~PassEnabled) \/ []<><<Pass>>_vars

\* the constructor is entered, and the method that is running goes on
SpecCursor == CursorInit /\ [][CursorNext]_vars /\ WF_vars(StartParse) /\ FairPass

\* how deep a loop is nested
Depth(at) ==
    CASE at = "cont" -> 2
      [] at \in {"inner", "results", "skip"} -> 1
      [] OTHER -> 0

\* a step of a method either moves its cursor forward (to a later block, or
\* to a later line of the block), or leaves a loop with the cursor where it
\* is: for the enclosing loop, or for good
Advances ==
    \/ cursor.fn # cursor'.fn
    \/ cursor'.b > cursor.b
    \/ cursor'.b = cursor.b /\ cursor'.i > cursor.i
    \/ cursor'.b = cursor.b /\ cursor'.i = cursor.i /\ Depth(cursor'.at) < Depth(cursor.at)
    \/ Ended'

\* C26: the block scanner and every extractor end on every finite file:
\* each pass through one of their loops moves the line cursor forward or
\* leaves the loop, the Format-2 continuation loop and the filter-skip
\* loops of get_output_vectors_arrays included, and a method that has begun
\* returns or raises.
C26_Termination == [][Advances]_cursor /\ (Walking ~> Ended)

\* get_output_vectors_arrays with a filter that passes over the first
\* vector has skipped to the end of its block and returned the vector of
\* the second block
C26_Witness ==
    /\ call = [fn |-> "get_output_vectors_arrays", args |-> <<2, -1>>]
    /\ Len(files[1]) >= 11 /\ files[1][10] = "5,8,1.,2.," /\ files[1][11] = "3.,"
    /\ Len(WalkedBlocks) = 2
    /\ cursor.at = "done" /\ cursor.b = 2

-----------------------------------------------------------------------------
(* get_nodes_arrays against get_nodes                                       *)

\* the (node_id, coords) pairs of the two arrays, in order
NodePairs(a) == [k \in 1..Len(a.node_ids) |-> [id |-> a.node_ids[k], value |-> a.coords[k]]]

\* C28 as stated: for every input, the (node_ids, coords) pairs returned by
\* get_nodes_arrays, read in order with a later pair replacing an earlier
\* pair of the same ID, give the map returned by get_nodes.
C28_ArrayViewOfNodes ==
    \A p \in Parsers :
        (call.fn = "get_nodes_arrays" /\ status[p] = "ok") =>
            LET nodes == get_nodes(blocks[p]) IN
            /\ ret[p].exc = nodes.exc
            /\ nodes.exc = "none" =>
                  DictItems(DictOf(NodePairs(ret[p].val), <<>>)) = DictItems(nodes.val)

\* the same, for the files in which get_nodes accepts a line
ArrayViewOfAcceptedNodes ==
    \A p \in Parsers :
        (call.fn = "get_nodes_arrays" /\ status[p] = "ok"
         /\ get_nodes(blocks[p]).val # <<>>) =>
            LET nodes == get_nodes(blocks[p]) IN
            /\ ret[p].exc = nodes.exc
            /\ nodes.exc = "none" =>
                  DictItems(DictOf(NodePairs(ret[p].val), <<>>)) = DictItems(nodes.val)

-----------------------------------------------------------------------------
(* The lines at which the records of get_output_vectors start               *)

\* set_id and vec_id as the header line of a written vector holds them
HeaderIds(vector) ==
    LET p == _parse_csv_line_fast(vector.lines[1]) IN <<IntVal(p[1]), IntVal(p[2])>>

\* the vectors written to the file of instance 1
WrittenVectors == <<made.first>> \o made.rest

\* C29 as stated: every record get_output_vectors returns starts at the
\* header line of a vector of the file, so carries the set_id and vec_id of
\* a header written and there are no more records than headers; also when
\* a result line of a vector does not parse.
C29_VectorsStartAtHeaders ==
    VectorsExtracted =>
        /\ Len(ret[1].val) <= Len(WrittenVectors)
        /\ \A k \in 1..Len(ret[1].val) :
              <<ret[1].val[k].set_id, ret[1].val[k].vec_id>>
                 \in {HeaderIds(WrittenVectors[j]) : j \in 1..Len(WrittenVectors)}

\* the same, for the files in which every result line parses
StartAtHeadersWhenResultsParse ==
    (VectorsExtracted /\ \A j \in 1..Len(WrittenVectors) : WrittenVectors[j] # BrokenVector) =>
        /\ Len(ret[1].val) <= Len(WrittenVectors)
        /\ \A k \in 1..Len(ret[1].val) :
              <<ret[1].val[k].set_id, ret[1].val[k].vec_id>>
                 \in {HeaderIds(WrittenVectors[j]) : j \in 1..Len(WrittenVectors)}

-----------------------------------------------------------------------------
(* A file whose last block is left open, and the same file with the         *)
(* closing delimiter line written                                           *)

OpenInit ==
    /\ TokIdle
    /\ ConvIdle
    /\ \E lines \in SeqsUpTo(ScanLines, MaxScanLines) :
          ParserStart(<<lines, Append(lines, BLOCK_DELIMITER)>>,
                      [family |-> "open", lines |-> lines])

OpenNext == \E p \in Parsers : Construct(p)

SpecOpen == OpenInit /\ [][OpenNext]_vars

\* the delimiter lines that open a block no later delimiter line closes
OpenAtEnd(lines) == {p \in Openers(lines) : CloseOf(lines, p) = Len(lines) + 1}

\* the block stored last under its ID
LastBlock(blks, id) == blks[id][Len(blks[id])]

\* C30: a block that is open when the end of the file is reached is stored
\* under its ID with all the lines from the line after its ID line to the
\* last line of the file, and the instance holds what it holds for the file
\* with the closing delimiter line written; no stored block holds a line
\* equal to the delimiter line.
C30_UnterminatedFinalBlock ==
    AllConstructed =>
        /\ \A p \in OpenAtEnd(files[1]) :
              /\ status[1] = status[2]
              /\ blocks[1] = blocks[2]
              /\ _parse(files[1]).exc = "none" =>
                    LET id == IntVal(IdLineAfter(files[1], p)) IN
                    /\ id \in DOMAIN blocks[1]
                    /\ LastBlock(blocks[1], id).lines
                          = SubSeq(files[1], p + 2, Len(files[1]))
        /\ \A q \in Parsers : \A id \in DOMAIN blocks[q] :
              \A k \in 1..Len(blocks[q][id]) :
                 \A j \in 1..Len(blocks[q][id][k].lines) :
                    blocks[q][id][k].lines[j] # BLOCK_DELIMITER

\* a Block 403 left open with an empty line and a bare -1 as its lines,
\* stored as the file with the closing delimiter line stores it
C30_Witness ==
    /\ AllConstructed
    /\ files[1] = <<BLOCK_DELIMITER, "403", "", "-1">>
    /\ OpenAtEnd(files[1]) = {1}
    /\ blocks[1][403][1].lines = <<"", "-1">>
    /\ blocks[2] = blocks[1]

====
